---- MODULE Spec2Model ----
(***************************************************************************)
(* Protocol translation and account failover gateway (codex-claude-proxy). *)
(*                                                                         *)
(* The module models                                                       *)
(*   - the rate-limit tracker (account-rotation/rate-limits.js),           *)
(*   - the two rotation strategies (sticky, round-robin),                  *)
(*   - the AccountRotator facade over account-manager.listAccounts,        *)
(*   - the retry orchestrator handleMessages (routes/messages-route.js),   *)
(*   - the SSE helpers (middleware/sse.js),                                *)
(*   - the Protocol-B stream re-encoder streamResponsesAPI.                *)
(*                                                                         *)
(* Times are milliseconds.  Indices are the 0-based indices of the         *)
(* JavaScript arrays; element i of an array is element i+1 of the          *)
(* sequence that models it.                                                *)
(***************************************************************************)
EXTENDS Integers, Sequences, FiniteSets, TLC

VARIABLES
    accountsFile,   \* accounts.json as loadAccounts() reads it: the persisted pool
    settings,       \* settings.json as getServerSettings() reads it
    rotator,        \* module-level accountRotator / currentStrategy of messages-route.js
    now,            \* Date.now()
    rq,             \* the handleMessages invocation in flight
    res,            \* its express response object
    served,         \* number of requests received so far
    enc,            \* local variables of one streamResponsesAPI run
    emitted,        \* events that run has yielded so far
    arg,            \* the argument a codec function is called with
    ret             \* what the call returned

vars == <<accountsFile, settings, rotator, now, rq, res, served, enc, emitted, arg, ret>>

(***************************************************************************)
(* Bounds of the model.                                                    *)
(***************************************************************************)
MaxAccounts == 6    \* largest pool
MaxRequests == 2    \* requests received in one behaviour
MaxNow == 3000      \* the clock stops advancing here
MaxEvents == 4      \* upstream events fed to one re-encoder run
MaxCalls == 9       \* upstream calls and sleeps counted in one request
MaxIdParts == 3     \* parts of one tool identifier
MaxBlocks == 3      \* blocks of one content array
MaxTracked == 3     \* accounts of one array handed to a strategy
MaxSelections == 2  \* consecutive selections of one strategy object
MaxCacheAge == 2    \* milliseconds the clock runs past the TTL of the caches

(***************************************************************************)
(* Program constants.                                                      *)
(***************************************************************************)
MAX_RETRIES == 5
MAX_WAIT_BEFORE_ERROR_MS == 120000
SHORT_RATE_LIMIT_THRESHOLD_MS == 5000
DEFAULT_RESET_MS == 60000
ALL_LIMITED_EXTRA_SLEEP_MS == 500
MIN_SIGNATURE_LENGTH == 50
SIGNATURE_CACHE_TTL_MS == 7200000

\* undefined: no call made, nothing returned
NoValue == [fn |-> "none"]

Max(a, b) == IF a >= b THEN a ELSE b
Min(a, b) == IF a <= b THEN a ELSE b

\* The model ids mapClaudeModel returns: the keys modelRateLimits is read under.
ModelIds == {"gpt-5.2", "gpt-5.3-codex", "kilo"}

(***************************************************************************)
(* Account records as the tracker and the strategies read them.  A field   *)
(* that is absent in JavaScript reads as undefined; the model gives it the *)
(* value the code's tests treat the same way: isInvalid FALSE, enabled     *)
(* TRUE (only enabled === false disables), cooldownUntil 0, and NoLimit    *)
(* for a model without an entry.                                           *)
(***************************************************************************)
NoLimit == [isRateLimited |-> FALSE, resetTime |-> 0, actualResetMs |-> 0]

(***************************************************************************)
(* rate-limits.js                                                          *)
(***************************************************************************)
isAccountCoolingDown(account, t) ==
    IF account.cooldownUntil = 0 THEN FALSE ELSE account.cooldownUntil > t

getCooldownRemaining(account, t) ==
    IF account.cooldownUntil = 0 THEN 0
    ELSE IF account.cooldownUntil - t > 0 THEN account.cooldownUntil - t ELSE 0

isAllRateLimited(accounts, modelId, t) ==
    IF Len(accounts) = 0 THEN TRUE
    ELSE \A i \in 1..Len(accounts) :
            /\ accounts[i].modelRateLimits[modelId].isRateLimited
            /\ accounts[i].modelRateLimits[modelId].resetTime > t

getAvailableAccounts(accounts, modelId, t) ==
    { i \in 1..Len(accounts) :
        /\ ~accounts[i].isInvalid
        /\ ~isAccountCoolingDown(accounts[i], t)
        /\ \/ ~accounts[i].modelRateLimits[modelId].isRateLimited
           \/ accounts[i].modelRateLimits[modelId].resetTime <= t }

\* clearExpiredLimits that clears every flagged entry.
clearExpiredLimits_All(accounts, t) ==
    [ i \in 1..Len(accounts) |->
        [ accounts[i] EXCEPT !.modelRateLimits =
            [ m \in DOMAIN accounts[i].modelRateLimits |->
                IF accounts[i].modelRateLimits[m].isRateLimited
                THEN NoLimit
                ELSE accounts[i].modelRateLimits[m] ] ] ]

clearExpiredLimits(accounts, t) ==
    [ i \in 1..Len(accounts) |->
        [ accounts[i] EXCEPT !.modelRateLimits =
            [ m \in DOMAIN accounts[i].modelRateLimits |->
                IF /\ accounts[i].modelRateLimits[m].isRateLimited
                   /\ accounts[i].modelRateLimits[m].resetTime <= t
                THEN NoLimit
                ELSE accounts[i].modelRateLimits[m] ] ] ]

markRateLimited(accounts, email, resetMs, modelId, t) ==
    [ i \in 1..Len(accounts) |->
        IF accounts[i].email = email
           /\ \A j \in 1..(i - 1) : accounts[j].email # email
        THEN [ accounts[i] EXCEPT !.modelRateLimits[modelId] =
                 [isRateLimited |-> TRUE, resetTime |-> t + resetMs,
                  actualResetMs |-> resetMs] ]
        ELSE accounts[i] ]

markInvalid(accounts, email) ==
    [ i \in 1..Len(accounts) |->
        IF accounts[i].email = email
           /\ \A j \in 1..(i - 1) : accounts[j].email # email
        THEN [ accounts[i] EXCEPT !.isInvalid = TRUE ]
        ELSE accounts[i] ]

clearInvalid(accounts, email) ==
    [ i \in 1..Len(accounts) |->
        IF accounts[i].email = email
           /\ \A j \in 1..(i - 1) : accounts[j].email # email
        THEN [ accounts[i] EXCEPT !.isInvalid = FALSE ]
        ELSE accounts[i] ]

\* The waits that lower minWait in the loop of getMinWaitTimeMs.
WaitCandidates(accounts, modelId, t) ==
    { getCooldownRemaining(accounts[i], t) :
        i \in { k \in 1..Len(accounts) :
                  /\ ~accounts[k].isInvalid
                  /\ getCooldownRemaining(accounts[k], t) > 0 } }
    \cup
    { accounts[i].modelRateLimits[modelId].resetTime - t :
        i \in { k \in 1..Len(accounts) :
                  /\ ~accounts[k].isInvalid
                  /\ accounts[k].modelRateLimits[modelId].isRateLimited
                  /\ accounts[k].modelRateLimits[modelId].resetTime > t } }

getMinWaitTimeMs(accounts, modelId, t) ==
    IF Len(accounts) = 0 THEN 0
    ELSE IF getAvailableAccounts(accounts, modelId, t) # {} THEN 0
    ELSE LET c == WaitCandidates(accounts, modelId, t)
         IN  IF c = {} THEN 0
             ELSE CHOOSE w \in c : \A v \in c : w <= v

(***************************************************************************)
(* strategies/base-strategy.js                                             *)
(***************************************************************************)
\* isAccountUsable that reads the rate limits of every model.
isAccountUsable_AnyModel(account, modelId, t) ==
    /\ ~account.isInvalid
    /\ account.enabled
    /\ ~isAccountCoolingDown(account, t)
    /\ \A m \in DOMAIN account.modelRateLimits :
         ~( /\ account.modelRateLimits[m].isRateLimited
            /\ account.modelRateLimits[m].resetTime > t )

isAccountUsable(account, modelId, t) ==
    /\ ~account.isInvalid
    /\ account.enabled
    /\ ~isAccountCoolingDown(account, t)
    /\ ~( /\ account.modelRateLimits[modelId].isRateLimited
          /\ account.modelRateLimits[modelId].resetTime > t )

\* getUsableAccounts that finds no account.
getUsableAccounts_None(accounts, modelId, t) == {}

getUsableAccounts(accounts, modelId, t) ==
    { i \in 0..(Len(accounts) - 1) : isAccountUsable(accounts[i + 1], modelId, t) }

(***************************************************************************)
(* strategies/sticky-strategy.js.  A selection result is                   *)
(* [found, index, waitMs, state]: found = FALSE stands for account: null,  *)
(* and state is the strategy object's own field after the call             *)
(* (this.currentIndex, this.cursor).                                       *)
(***************************************************************************)
\* #shouldWaitForAccount that never waits.
shouldWaitForAccount_Never(account, modelId, t) == [shouldWait |-> FALSE, waitMs |-> 0]

shouldWaitForAccount(account, modelId, t) ==
    IF account.isInvalid THEN [shouldWait |-> FALSE, waitMs |-> 0]
    ELSE IF ~account.enabled THEN [shouldWait |-> FALSE, waitMs |-> 0]
    ELSE IF /\ account.modelRateLimits[modelId].isRateLimited
            /\ account.modelRateLimits[modelId].resetTime > t
            /\ account.modelRateLimits[modelId].resetTime - t <= MAX_WAIT_BEFORE_ERROR_MS
         THEN [shouldWait |-> TRUE,
               waitMs |-> account.modelRateLimits[modelId].resetTime - t]
         ELSE [shouldWait |-> FALSE, waitMs |-> 0]

\* The offsets i of the loop of #pickNext / RoundRobinStrategy.selectAccount
\* at which the loop returns, scanning from startIndex and skipping `skip`.
ScanHits(accounts, startIndex, skip, modelId, t) ==
    { i \in 0..(Len(accounts) - 1) :
        /\ (startIndex + i) % Len(accounts) # skip
        /\ isAccountUsable(accounts[((startIndex + i) % Len(accounts)) + 1], modelId, t) }

FirstHit(hits) == CHOOSE i \in hits : \A j \in hits : i <= j

\* #pickNext scanning from the start of the array.
pickNext_FromStart(accounts, currentIndex, modelId, t) ==
    LET hits == ScanHits(accounts, 0, currentIndex, modelId, t)
    IN  IF hits = {} THEN -1 ELSE FirstHit(hits)

\* #pickNext: the index it returns, or -1 for null.
pickNext(accounts, currentIndex, modelId, t) ==
    LET startIndex == (currentIndex + 1) % Len(accounts)
        hits == ScanHits(accounts, startIndex, currentIndex, modelId, t)
    IN  IF hits = {} THEN -1
        ELSE (startIndex + FirstHit(hits)) % Len(accounts)

StickySelectAccount(accounts, modelId, currentIndex, thisCurrentIndex, t) ==
    IF Len(accounts) = 0
    THEN [found |-> FALSE, index |-> currentIndex, waitMs |-> 0, state |-> thisCurrentIndex]
    ELSE
      LET clampedIndex == Max(0, Min(currentIndex, Len(accounts) - 1))
          currentAccount == accounts[clampedIndex + 1]
          next == pickNext(accounts, clampedIndex, modelId, t)
          w == shouldWaitForAccount(currentAccount, modelId, t)
      IN  IF isAccountUsable(currentAccount, modelId, t)
          THEN [found |-> TRUE, index |-> clampedIndex, waitMs |-> 0,
                state |-> thisCurrentIndex]
          ELSE IF getUsableAccounts(accounts, modelId, t) # {} /\ next # -1
          THEN [found |-> TRUE, index |-> next, waitMs |-> 0, state |-> next]
          ELSE IF w.shouldWait /\ w.waitMs <= MAX_WAIT_BEFORE_ERROR_MS
          THEN [found |-> FALSE, index |-> clampedIndex, waitMs |-> w.waitMs,
                state |-> thisCurrentIndex]
          ELSE [found |-> FALSE, index |-> clampedIndex, waitMs |-> 0,
                state |-> thisCurrentIndex]

(***************************************************************************)
(* strategies/round-robin-strategy.js                                      *)
(***************************************************************************)
\* selectAccount scanning from the cursor itself.
RoundRobinSelectAccount_FromCursor(accounts, modelId, thisCursor, t) ==
    IF Len(accounts) = 0
    THEN [found |-> FALSE, index |-> 0, waitMs |-> 0, state |-> thisCursor]
    ELSE
      LET cursor == IF thisCursor >= Len(accounts) THEN 0 ELSE thisCursor
          hits == ScanHits(accounts, cursor, -1, modelId, t)
      IN  IF hits # {}
          THEN [found |-> TRUE, index |-> (cursor + FirstHit(hits)) % Len(accounts),
                waitMs |-> 0, state |-> (cursor + FirstHit(hits)) % Len(accounts)]
          ELSE [found |-> FALSE, index |-> cursor, waitMs |-> 0, state |-> cursor]

RoundRobinSelectAccount(accounts, modelId, thisCursor, t) ==
    IF Len(accounts) = 0
    THEN [found |-> FALSE, index |-> 0, waitMs |-> 0, state |-> thisCursor]
    ELSE
      LET cursor == IF thisCursor >= Len(accounts) THEN 0 ELSE thisCursor
          startIndex == (cursor + 1) % Len(accounts)
          hits == ScanHits(accounts, startIndex, -1, modelId, t)
      IN  IF hits # {}
          THEN [found |-> TRUE, index |-> (startIndex + FirstHit(hits)) % Len(accounts),
                waitMs |-> 0, state |-> (startIndex + FirstHit(hits)) % Len(accounts)]
          ELSE [found |-> FALSE, index |-> cursor, waitMs |-> 0, state |-> cursor]

\* strategies/index.js: strategyMap[name] || StickyStrategy
createStrategy(name) ==
    IF name = "round-robin" THEN [name |-> "round-robin", state |-> 0]
    ELSE [name |-> "sticky", state |-> 0]

(***************************************************************************)
(* account-manager.js                                                      *)
(***************************************************************************)
\* listAccounts(): a fresh array of fresh objects on every call, built from
\* the file, each carrying email, accountId, planType, addedAt, lastUsed,
\* isActive, tokenExpired and quota only.  isInvalid, enabled, cooldownUntil
\* and modelRateLimits are not among them, so a reader finds them absent.
listAccounts(data) ==
    [ i \in 1..Len(data) |->
        [ email |-> data[i].email,
          isInvalid |-> FALSE,
          enabled |-> TRUE,
          cooldownUntil |-> 0,
          modelRateLimits |-> [ m \in ModelIds |-> NoLimit ] ] ]

\* save(): messages-route.js hands the rotator listAccounts, save and
\* getActiveAccount; save takes no argument and account-manager.js exports no
\* function of that name.  Persisting is the external collaborator's work and
\* changes nothing the rotator reads back.
save(data) == data

(***************************************************************************)
(* account-rotation/index.js: AccountRotator.  Each method calls           *)
(* accountManager.listAccounts() and works on the array it gets.           *)
(***************************************************************************)
RotatorSelectAccount(rot, data, modelId, t) ==
    IF rot.strategy.name = "round-robin"
    THEN RoundRobinSelectAccount(listAccounts(data), modelId, rot.strategy.state, t)
    ELSE StickySelectAccount(listAccounts(data), modelId, 0, rot.strategy.state, t)

RotatorIsAllRateLimited(data, modelId, t) ==
    isAllRateLimited(listAccounts(data), modelId, t)

RotatorGetMinWaitTimeMs(data, modelId, t) ==
    getMinWaitTimeMs(listAccounts(data), modelId, t)

\* markRateLimited / markInvalid / clearExpiredLimits of the rotator: the
\* accounts file after the call.  The tracker function changes the array of
\* listAccounts(); what is saved is the file.
RotatorMarkRateLimited(data, email, resetMs, modelId, t) ==
    LET written == markRateLimited(listAccounts(data), email, resetMs, modelId, t)
    IN  save(data)

RotatorMarkInvalid(data, email) ==
    LET written == markInvalid(listAccounts(data), email)
    IN  save(data)

RotatorClearExpiredLimits(data, t) ==
    LET written == clearExpiredLimits(listAccounts(data), t)
    IN  save(data)

\* The entry a rotator write stored for the account (history only).
WrittenLimit(data, email, resetMs, modelId, t) ==
    LET written == markRateLimited(listAccounts(data), email, resetMs, modelId, t)
        hit == { i \in 1..Len(written) : written[i].email = email }
    IN  IF hit = {} THEN NoLimit
        ELSE written[CHOOSE i \in hit : TRUE].modelRateLimits[modelId]

(***************************************************************************)
(* model-mapper.js.  The string tests of mapClaudeModel are tabulated for  *)
(* the model names the requests of this model carry; "" stands for a body  *)
(* without a model field.                                                  *)
(***************************************************************************)
RequestModels == {"claude-sonnet-4-6", "claude-opus-next", "claude-haiku-4-5", "my-haiku"}

\* The rows of CLAUDE_MODEL_MAP whose keys occur among the names above.
CLAUDE_MODEL_MAP ==
    [ k \in {"claude-sonnet-4-6", "claude-haiku-4-5", "haiku", "gpt-5.2"} |->
        CASE k = "claude-sonnet-4-6" -> "gpt-5.2"
          [] k = "claude-haiku-4-5" -> "kilo"
          [] k = "haiku" -> "kilo"
          [] k = "gpt-5.2" -> "gpt-5.2" ]

\* modelLower.startsWith('claude-')
StartsWithClaude(model) ==
    model \in {"claude-sonnet-4-6", "claude-opus-next", "claude-haiku-4-5", "claude-haiku-next"}

\* cleanModel.includes(word)
CleanIncludes(model, word) ==
    <<model, word>> \in { <<"claude-sonnet-4-6", "sonnet">>, <<"claude-opus-next", "opus">>,
                          <<"claude-haiku-4-5", "haiku">>, <<"claude-haiku-next", "haiku">> }

\* The keys of CLAUDE_MODEL_MAP that modelLower includes, in insertion order.
IncludedKeys(model) ==
    IF model = "my-haiku" THEN <<"haiku">>
    ELSE IF model \in DOMAIN CLAUDE_MODEL_MAP THEN <<model>>
    ELSE <<>>

mapClaudeModel(model) ==
    IF model = "" THEN "gpt-5.2"
    ELSE IF model \in DOMAIN CLAUDE_MODEL_MAP THEN CLAUDE_MODEL_MAP[model]
    ELSE IF StartsWithClaude(model) /\ CleanIncludes(model, "opus") THEN "gpt-5.3-codex"
    ELSE IF StartsWithClaude(model) /\ CleanIncludes(model, "sonnet") THEN "gpt-5.2"
    ELSE IF StartsWithClaude(model) /\ CleanIncludes(model, "haiku") THEN "kilo"
    ELSE IF IncludedKeys(model) # <<>> THEN CLAUDE_MODEL_MAP[IncludedKeys(model)[1]]
    ELSE "gpt-5.2"

\* isKiloModel with no model recognised as the alternate backend's.
isKiloModel_Never(mappedModel) == FALSE

isKiloModel(mappedModel) == mappedModel = "kilo"

resolveKiloModel(s) ==
    IF s.haikuKiloModel = "minimax-2.5" THEN "minimax/minimax-m2.5:free"
    ELSE "z-ai/glm-5:free"

resolveModelRouting(requestedModel, s) ==
    LET mappedModel == mapClaudeModel(IF requestedModel = "" THEN "gpt-5.2" ELSE requestedModel)
        isKilo == isKiloModel(mappedModel)
    IN  [ mappedModel |-> mappedModel,
          isKilo |-> isKilo,
          kiloTarget |-> IF isKilo THEN resolveKiloModel(s) ELSE "null",
          upstreamModel |-> IF isKilo THEN resolveKiloModel(s) ELSE mappedModel ]

(***************************************************************************)
(* Upstream answers.  A header is <<>> when absent and <<v>> when present; *)
(* nan marks a value parseInt cannot read.  The body text is one of three  *)
(* flavours; delay is the quotaResetDelay / "retry after" the text names.  *)
(***************************************************************************)
NoHeader == <<>>
Header(n) == << [nan |-> FALSE, n |-> n] >>
NanHeader == << [nan |-> TRUE, n |-> 0] >>

Answer(status, retryAfter, ratelimitReset, text, delay, cut) ==
    [ status |-> status, retryAfter |-> retryAfter, ratelimitReset |-> ratelimitReset,
      text |-> text, delay |-> delay, cut |-> cut ]

\* direct-api.js parseResetTime.  delay is <<>> or <<ms>>: the value the two
\* regular expressions read from the text, already in milliseconds.
parseResetTime(response, t) ==
    IF response.retryAfter # NoHeader /\ ~response.retryAfter[1].nan
    THEN response.retryAfter[1].n * 1000
    ELSE IF /\ response.ratelimitReset # NoHeader
            /\ ~response.ratelimitReset[1].nan
            /\ response.ratelimitReset[1].n * 1000 - t > 0
    THEN response.ratelimitReset[1].n * 1000 - t
    ELSE IF response.delay # <<>> THEN response.delay[1]
    ELSE DEFAULT_RESET_MS

(***************************************************************************)
(* Errors.  An Error is [kind, resetMs, text]: its message is the kind's   *)
(* prefix followed, for the kinds that embed it, by the upstream text.     *)
(***************************************************************************)
Err(kind, resetMs, text) == [kind |-> kind, resetMs |-> resetMs, text |-> text]

EmbedsText(kind) == kind \in {"RATE_LIMITED", "FORBIDDEN", "INVALID_REQUEST", "API_ERROR"}

\* error.message.startsWith('RATE_LIMITED:')
StartsWithRateLimited(error) == error.kind = "RATE_LIMITED"

\* error.message.includes('AUTH_EXPIRED')
IncludesAuthExpired(error) ==
    IF error.kind = "AUTH_EXPIRED" THEN TRUE
    ELSE EmbedsText(error.kind) /\ error.text = "mentions AUTH_EXPIRED"

\* error.message.includes('RESOURCE_EXHAUSTED')
IncludesResourceExhausted(error) == error.kind = "RESOURCE_EXHAUSTED"

\* The error sendMessageStream throws for a non-2xx answer.
StreamError(response, t) ==
    IF response.status = 401 THEN Err("AUTH_EXPIRED", 0, "plain")
    ELSE IF response.status = 429
         THEN Err("RATE_LIMITED", parseResetTime(response, t), response.text)
    ELSE IF response.status = 403
         THEN IF response.text = "cloudflare challenge"
              THEN Err("CLOUDFLARE_BLOCKED", 0, "plain")
              ELSE Err("FORBIDDEN", 0, response.text)
    ELSE IF response.status = 400 THEN Err("INVALID_REQUEST", 0, response.text)
    ELSE Err("API_ERROR", 0, response.text)

\* The error sendMessage throws for a non-2xx answer.
SendError(response) ==
    IF response.status = 401 THEN Err("AUTH_EXPIRED", 0, "plain")
    ELSE Err("API_ERROR", 0, response.text)

(***************************************************************************)
(* middleware/sse.js and middleware/credentials.js on the response object. *)
(* body lists what the client has been sent.                               *)
(***************************************************************************)
NewResponse == [headersSent |-> FALSE, statusCode |-> 200, body |-> <<>>, ended |-> FALSE]

\* res.status(code).json(...)
Json(r, code, what) ==
    [headersSent |-> TRUE, statusCode |-> code, body |-> Append(r.body, what), ended |-> TRUE]

\* initSSEResponse: res.setHeader throws once the headers have been flushed.
initSSEResponse(r) ==
    IF r.headersSent THEN [threw |-> TRUE, res |-> r]
    ELSE [threw |-> FALSE, res |-> [r EXCEPT !.headersSent = TRUE]]

\* pipeSSEStream over a generator that completes.
pipeSSEStream(r) ==
    [r EXCEPT !.body = r.body \o <<"events", "data: [DONE]">>, !.ended = TRUE]

handleStreamError(r, error) ==
    IF r.headersSent
    THEN [r EXCEPT !.body = Append(r.body, "event: error"), !.ended = TRUE]
    ELSE IF IncludesAuthExpired(error) THEN Json(r, 401, "json: authentication_error")
    ELSE IF StartsWithRateLimited(error) THEN Json(r, 429, "json: rate_limit_error")
    ELSE IF IncludesResourceExhausted(error) THEN Json(r, 429, "json: rate_limit_error")
    ELSE Json(r, 500, "json: api_error")

\* sendAuthError: res.status(401).json(...)
sendAuthError(r) == Json(r, 401, "json: authentication_error")

\* getCredentialsForAccount(email): [creds, file].  creds = FALSE stands for
\* null.  refreshOk is the outcome of refreshAccountToken, which is asked
\* only for a token that is expired or expiring soon.
getCredentialsForAccount(data, email, refreshOk) ==
    LET hit == { i \in 1..Len(data) : data[i].email = email }
    IN  IF hit = {} THEN [creds |-> FALSE, file |-> data]
        ELSE LET i == CHOOSE k \in hit : \A j \in hit : k <= j
             IN  IF data[i].tokens = "missing" THEN [creds |-> FALSE, file |-> data]
                 ELSE IF data[i].tokens = "expiring"
                 THEN IF refreshOk
                      THEN [creds |-> TRUE, file |-> [data EXCEPT ![i].tokens = "valid"]]
                      ELSE [creds |-> FALSE, file |-> data]
                 ELSE [creds |-> TRUE, file |-> data]

(***************************************************************************)
(* routes/messages-route.js                                                *)
(***************************************************************************)
\* getAccountRotator(): the rotator after the call.
getAccountRotator(rot, s) ==
    LET strategy == IF s.accountStrategy = "" THEN "sticky" ELSE s.accountStrategy
    IN  IF rot.currentStrategy = "null" \/ rot.currentStrategy # strategy
        THEN [currentStrategy |-> strategy, strategy |-> createStrategy(strategy)]
        ELSE rot

NoCall == [email |-> 0, status |-> 0, cut |-> FALSE, resetMs |-> 0]

IdleRequest ==
    [ pc |-> "idle", model |-> "", stream |-> FALSE, isKilo |-> FALSE,
      upstreamModel |-> "gpt-5.2", poolSize |-> 0, attempt |-> 0, maxAttempts |-> 0,
      account |-> 0, sleepMs |-> 0, sleepKind |-> "none", sleeps |-> 0,
      selects |-> 0, credLookups |-> 0,
      calls |-> 0, firstCall |-> NoCall, lastCall |-> NoCall, laterFailures |-> 0 ]

\* What one upstream call of the request was made with and came back as.
Outcome(email, response, t) ==
    [ email |-> email, status |-> response.status, cut |-> response.cut,
      resetMs |-> IF response.status = 429 THEN parseResetTime(response, t) ELSE 0 ]

Failed(call) == call.status # 200 \/ call.cut

\* The request's record of its upstream calls after one more call.
Called(q, call) ==
    [ q EXCEPT !.calls = q.calls + 1,
               !.firstCall = IF q.calls = 0 THEN call ELSE q.firstCall,
               !.lastCall = call,
               !.laterFailures = IF q.calls > 0 /\ Failed(call)
                                 THEN q.laterFailures + 1 ELSE q.laterFailures ]

\* Lines 55-78: one pass from the head of the for loop to the first await or
\* return.  The result is the request, the response and the rotator after it.
LoopHead(q, r, rot, data, t) ==
    IF q.attempt >= q.maxAttempts
    THEN [ rq |-> [q EXCEPT !.pc = "done"],
           res |-> handleStreamError(r, Err("Max retries exceeded", 0, "plain")),
           rotator |-> rot ]
    ELSE IF RotatorIsAllRateLimited(data, q.upstreamModel, t)
    THEN LET minWait == RotatorGetMinWaitTimeMs(data, q.upstreamModel, t)
         IN  IF minWait > MAX_WAIT_BEFORE_ERROR_MS
             THEN [ rq |-> [q EXCEPT !.pc = "done"],
                    res |-> handleStreamError(r, Err("RESOURCE_EXHAUSTED", minWait, "plain")),
                    rotator |-> rot ]
             ELSE [ rq |-> [q EXCEPT !.pc = "sleep",
                                     !.sleepMs = minWait + ALL_LIMITED_EXTRA_SLEEP_MS,
                                     !.sleepKind = "all rate-limited"],
                    res |-> r, rotator |-> rot ]
    ELSE LET sel == RotatorSelectAccount(rot, data, q.upstreamModel, t)
             rot2 == [rot EXCEPT !.strategy.state = sel.state]
             q2 == [q EXCEPT !.selects = q.selects + 1]
         IN  IF ~sel.found
             THEN IF sel.waitMs > 0
                  THEN [ rq |-> [q2 EXCEPT !.pc = "sleep", !.sleepMs = sel.waitMs,
                                           !.sleepKind = "strategy wait"],
                         res |-> r, rotator |-> rot2 ]
                  ELSE [ rq |-> [q2 EXCEPT !.pc = "done"],
                         res |-> sendAuthError(r), rotator |-> rot2 ]
             ELSE [ rq |-> [q2 EXCEPT !.pc = "creds",
                                      !.account = listAccounts(data)[sel.index + 1].email],
                    res |-> r, rotator |-> rot2 ]

\* The catch block with an auth failure retried without counting the attempt.
Catch_AuthUncounted(q, r, data, error) ==
    IF StartsWithRateLimited(error)
    THEN IF error.resetMs <= SHORT_RATE_LIMIT_THRESHOLD_MS
         THEN [ rq |-> [q EXCEPT !.pc = "sleep", !.sleepMs = error.resetMs,
                                 !.sleepKind = "short rate limit"],
                res |-> r, file |-> data ]
         ELSE [ rq |-> [q EXCEPT !.pc = "loop", !.attempt = q.attempt + 1],
                res |-> r, file |-> data ]
    ELSE IF IncludesAuthExpired(error)
    THEN [ rq |-> [q EXCEPT !.pc = "loop"],
           res |-> r, file |-> RotatorMarkInvalid(data, q.account) ]
    ELSE [ rq |-> [q EXCEPT !.pc = "done"], res |-> handleStreamError(r, error),
           file |-> data ]

\* Lines 96-121: the catch block.  The result is the request, the response
\* and the accounts file after it.
Catch(q, r, data, error) ==
    IF StartsWithRateLimited(error)
    THEN IF error.resetMs <= SHORT_RATE_LIMIT_THRESHOLD_MS
         THEN [ rq |-> [q EXCEPT !.pc = "sleep", !.sleepMs = error.resetMs,
                                 !.sleepKind = "short rate limit"],
                res |-> r, file |-> data ]
         ELSE [ rq |-> [q EXCEPT !.pc = "loop", !.attempt = q.attempt + 1],
                res |-> r, file |-> data ]
    ELSE IF IncludesAuthExpired(error)
    THEN [ rq |-> [q EXCEPT !.pc = "loop", !.attempt = q.attempt + 1],
           res |-> r, file |-> RotatorMarkInvalid(data, q.account) ]
    ELSE [ rq |-> [q EXCEPT !.pc = "done"], res |-> handleStreamError(r, error),
           file |-> data ]

(***************************************************************************)
(* The answers the upstreams give in this model.                           *)
(***************************************************************************)
OkAnswer == Answer(200, NoHeader, NoHeader, "plain", <<>>, FALSE)
CutAnswer == Answer(200, NoHeader, NoHeader, "plain", <<>>, TRUE)

RateLimitAnswers ==
    { Answer(429, Header(s), NoHeader, "plain", <<>>, FALSE) : s \in {2, 5, 6, 130} }
    \cup { Answer(429, NoHeader, NoHeader, "plain", <<>>, FALSE) }

ErrorAnswers ==
    { Answer(401, NoHeader, NoHeader, "plain", <<>>, FALSE) }
    \cup { Answer(st, NoHeader, NoHeader, "plain", <<>>, FALSE) : st \in {400, 403, 500} }
    \cup { Answer(400, NoHeader, NoHeader, "mentions AUTH_EXPIRED", <<>>, FALSE),
           Answer(403, NoHeader, NoHeader, "cloudflare challenge", <<>>, FALSE) }

DirectAnswers == {OkAnswer, CutAnswer} \cup RateLimitAnswers \cup ErrorAnswers

KiloAnswers ==
    {OkAnswer, CutAnswer, Answer(429, NoHeader, NoHeader, "plain", <<>>, FALSE),
     Answer(500, NoHeader, NoHeader, "plain", <<>>, FALSE)}

(***************************************************************************)
(* Actions of the orchestrator.                                            *)
(***************************************************************************)
\* handleMessages, lines 34-52: routing, and for the direct path the rotator,
\* the first sweep and the attempt budget.
ReceiveRequest(model, stream) ==
    /\ rq.pc \in {"idle", "done", "rejected"}
    /\ served < MaxRequests
    /\ served' = served + 1
    /\ res' = NewResponse
    /\ LET routing == resolveModelRouting(model, settings)
           q == [IdleRequest EXCEPT !.model = model, !.stream = stream,
                                    !.isKilo = routing.isKilo,
                                    !.upstreamModel = routing.upstreamModel]
       IN  IF routing.isKilo
           THEN /\ rq' = [q EXCEPT !.pc = "kilo"]
                /\ UNCHANGED <<rotator, accountsFile>>
           ELSE /\ rotator' = getAccountRotator(rotator, settings)
                /\ accountsFile' = RotatorClearExpiredLimits(accountsFile, now)
                /\ rq' = [q EXCEPT !.pc = "loop",
                                   !.poolSize = Len(listAccounts(accountsFile)),
                                   !.maxAttempts = Max(MAX_RETRIES, Len(listAccounts(accountsFile)))]
    /\ UNCHANGED <<settings, now, enc, emitted, arg, ret>>

LoopIteration ==
    /\ rq.pc = "loop"
    /\ LET n == LoopHead(rq, res, rotator, accountsFile, now)
       IN  /\ rq' = n.rq
           /\ res' = n.res
           /\ rotator' = n.rotator
    /\ UNCHANGED <<accountsFile, settings, now, served, enc, emitted, arg, ret>>

\* sleep(ms) ends; lines 63-66, 73-75 and 106-108: the attempt is not counted.
SleepEnds ==
    /\ rq.pc = "sleep"
    /\ now' = Min(now + rq.sleepMs, MaxNow)
    /\ accountsFile' = IF rq.sleepKind = "all rate-limited"
                       THEN RotatorClearExpiredLimits(accountsFile, now')
                       ELSE accountsFile
    /\ rq' = [rq EXCEPT !.pc = "loop", !.sleeps = Min(rq.sleeps + 1, MaxCalls)]
    /\ UNCHANGED <<settings, rotator, res, served, enc, emitted, arg, ret>>

\* Lines 80-84.
ResolveCredentials ==
    /\ rq.pc = "creds"
    /\ \E refreshOk \in BOOLEAN :
         LET c == getCredentialsForAccount(accountsFile, rq.account, refreshOk)
         IN  IF c.creds
             THEN /\ rq' = [rq EXCEPT !.pc = "call", !.credLookups = rq.credLookups + 1]
                  /\ accountsFile' = c.file
             ELSE /\ rq' = [rq EXCEPT !.pc = "loop", !.attempt = rq.attempt + 1,
                                      !.credLookups = rq.credLookups + 1]
                  /\ accountsFile' = RotatorMarkInvalid(c.file, rq.account)
    /\ UNCHANGED <<settings, rotator, now, res, served, enc, emitted, arg, ret>>

\* _streamDirectWithRotation with sendMessageStream, and the catch block when
\* it throws.
StreamDirectWithRotation ==
    /\ rq.pc = "call"
    /\ rq.stream
    /\ LET init == initSSEResponse(res)
       IN  IF init.threw
           THEN LET c == Catch(rq, res, accountsFile, Err("ERR_HTTP_HEADERS_SENT", 0, "plain"))
                IN  /\ rq' = c.rq
                    /\ res' = c.res
                    /\ accountsFile' = c.file
           ELSE /\ rq.calls < MaxCalls
                /\ \E a \in DirectAnswers :
                    LET q == Called(rq, Outcome(rq.account, a, now))
                        error == StreamError(a, now)
                        \* sendMessageStream, lines 62-75: the rotator's marks
                        file1 == IF a.status = 401 THEN RotatorMarkInvalid(accountsFile, rq.account)
                                 ELSE IF a.status = 429
                                 THEN RotatorMarkRateLimited(accountsFile, rq.account,
                                                             error.resetMs, rq.upstreamModel, now)
                                 ELSE accountsFile
                    IN  IF a.status = 200 /\ ~a.cut
                        THEN /\ rq' = [q EXCEPT !.pc = "done"]
                             /\ res' = pipeSSEStream(init.res)
                             /\ UNCHANGED accountsFile
                        ELSE IF a.status = 200
                        THEN LET c == Catch(q, [init.res EXCEPT !.body = Append(@, "partial events")],
                                            accountsFile, Err("terminated", 0, "plain"))
                             IN  /\ rq' = c.rq
                                 /\ res' = c.res
                                 /\ accountsFile' = c.file
                        ELSE LET c == Catch(q, init.res, file1, error)
                             IN  /\ rq' = c.rq
                                 /\ res' = c.res
                                 /\ accountsFile' = c.file
    /\ UNCHANGED <<settings, rotator, now, served, enc, emitted, arg, ret>>

\* _sendDirectWithRotation with sendMessage, and the catch block when it throws.
SendDirectWithRotation ==
    /\ rq.pc = "call"
    /\ ~rq.stream
    /\ rq.calls < MaxCalls
    /\ \E a \in DirectAnswers :
        LET q == Called(rq, Outcome(rq.account, a, now))
        IN  IF a.status = 200 /\ ~a.cut
            THEN /\ rq' = [q EXCEPT !.pc = "done"]
                 /\ res' = Json(res, 200, "json: message")
                 /\ UNCHANGED accountsFile
            ELSE LET c == Catch(q, res, accountsFile,
                                IF a.status = 200 THEN Err("terminated", 0, "plain")
                                ELSE SendError(a))
                 IN  /\ rq' = c.rq
                     /\ res' = c.res
                     /\ accountsFile' = c.file
    /\ UNCHANGED <<settings, rotator, now, served, enc, emitted, arg, ret>>

\* _streamKilo: nothing in handleMessages catches what it throws.
StreamKilo ==
    /\ rq.pc = "kilo"
    /\ rq.stream
    /\ \E a \in KiloAnswers :
        LET init == initSSEResponse(res)
            q == Called(rq, Outcome(0, a, now))
        IN  IF a.status = 200 /\ ~a.cut
            THEN /\ rq' = [q EXCEPT !.pc = "done"]
                 /\ res' = pipeSSEStream(init.res)
            ELSE IF a.status = 200
            THEN /\ rq' = [q EXCEPT !.pc = "rejected"]
                 /\ res' = [init.res EXCEPT !.body = Append(@, "partial events")]
            ELSE /\ rq' = [q EXCEPT !.pc = "rejected"]
                 /\ res' = init.res
    /\ UNCHANGED <<accountsFile, settings, rotator, now, served, enc, emitted, arg, ret>>

\* _sendKilo
SendKilo ==
    /\ rq.pc = "kilo"
    /\ ~rq.stream
    /\ \E a \in KiloAnswers :
        LET q == Called(rq, Outcome(0, a, now))
        IN  IF a.status = 200 /\ ~a.cut
            THEN /\ rq' = [q EXCEPT !.pc = "done"]
                 /\ res' = Json(res, 200, "json: message")
            ELSE /\ rq' = [q EXCEPT !.pc = "rejected"]
                 /\ res' = res
    /\ UNCHANGED <<accountsFile, settings, rotator, now, served, enc, emitted, arg, ret>>

\* POST /settings/account-strategy, between two requests.
SetAccountStrategy(name) ==
    /\ rq.pc \in {"idle", "done", "rejected"}
    /\ name # settings.accountStrategy
    /\ settings' = [settings EXCEPT !.accountStrategy = name]
    /\ UNCHANGED <<accountsFile, rotator, now, rq, res, served, enc, emitted, arg, ret>>

(***************************************************************************)
(* response-streamer.js: streamResponsesAPI, one upstream event at a time. *)
(* enc holds the generator's local variables, emitted what it has yielded. *)
(***************************************************************************)
IdleEncoder ==
    [ api |-> "none", phase |-> "off", hasEmittedStart |-> FALSE, blockIndex |-> 0,
      currentBlockType |-> "null", stopReason |-> "end_turn", consumed |-> 0 ]

\* Lines 34-44: the locals when the generator starts.
NewEncoder == [IdleEncoder EXCEPT !.phase = "reading", !.api = "responses"]

\* item.type of a response.output_item.added event: the three the code knows,
\* one it does not, and an event that carries no item at all.
ItemTypes == {"message", "function_call", "reasoning", "web_search_call", "undefined"}

UpstreamEvents ==
    { [type |-> "response.output_item.added", item |-> it, delta |-> ""] : it \in ItemTypes }
    \cup { [type |-> ty, item |-> "undefined", delta |-> d] :
             ty \in {"response.output_text.delta", "response.function_call_arguments.delta"},
             d \in {"", "x"} }
    \cup { [type |-> ty, item |-> "undefined", delta |-> ""] :
             ty \in {"response.output_item.done", "response.completed"} }

Ev(event, index, block) == [event |-> event, index |-> index, block |-> block]

MessageStart == Ev("message_start", 0, "none")

\* Lines 80-155.  With no item, item.type throws after the previous block was
\* closed, and the catch at line 198 swallows it.
OutputItemAdded(e, item) ==
    LET close == e.currentBlockType # "null"
        index == IF close THEN e.blockIndex + 1 ELSE e.blockIndex
        block == CASE item = "message" -> "text"
                   [] item = "function_call" -> "tool_use"
                   [] item = "reasoning" -> "thinking"
                   [] OTHER -> "null"
    IN  [ enc |-> [e EXCEPT !.hasEmittedStart = TRUE,
                            !.blockIndex = index,
                            !.currentBlockType = IF block = "null" THEN @ ELSE block,
                            !.stopReason = IF item = "function_call" THEN "tool_use" ELSE @],
          out |-> (IF e.hasEmittedStart THEN <<>> ELSE <<MessageStart>>)
                  \o (IF close THEN <<Ev("content_block_stop", e.blockIndex, "none")>> ELSE <<>>)
                  \o (IF block = "null" THEN <<>>
                      ELSE <<Ev("content_block_start", index, block)>>) ]

\* Lines 158-185.
Delta(e, event) ==
    LET wanted == IF event.type = "response.output_text.delta" THEN "text" ELSE "tool_use"
    IN  [ enc |-> e,
          out |-> IF event.delta # "" /\ e.currentBlockType = wanted
                  THEN <<Ev("content_block_delta", e.blockIndex, wanted)>>
                  ELSE <<>> ]

\* Lines 57-200: one data line of the upstream body.
OnEvent(e, event) ==
    IF event.type = "response.output_item.added" THEN OutputItemAdded(e, event.item)
    ELSE IF event.type \in {"response.output_text.delta",
                            "response.function_call_arguments.delta"}
    THEN Delta(e, event)
    ELSE [enc |-> e, out |-> <<>>]

\* Lines 203-272: after the upstream body ends.
OnEnd(e) ==
    LET tail == << Ev("message_delta", 0, e.stopReason), Ev("message_stop", 0, "none") >>
    IN  IF ~e.hasEmittedStart
        THEN [ enc |-> [e EXCEPT !.hasEmittedStart = TRUE, !.blockIndex = 1,
                                 !.currentBlockType = "null", !.phase = "ended"],
               out |-> << MessageStart, Ev("content_block_start", 0, "text"),
                          Ev("content_block_delta", 0, "text"),
                          Ev("content_block_stop", 0, "none") >> \o tail ]
        ELSE [ enc |-> [e EXCEPT !.phase = "ended"],
               out |-> (IF e.currentBlockType # "null"
                        THEN <<Ev("content_block_stop", e.blockIndex, "none")>> ELSE <<>>)
                       \o tail ]

UpstreamEvent(event) ==
    /\ enc.api = "responses"
    /\ enc.phase = "reading"
    /\ enc.consumed < MaxEvents
    /\ LET n == OnEvent(enc, event)
       IN  /\ enc' = [n.enc EXCEPT !.consumed = enc.consumed + 1]
           /\ emitted' = emitted \o n.out
    /\ UNCHANGED <<accountsFile, settings, rotator, now, rq, res, served, arg, ret>>

UpstreamEnds ==
    /\ enc.api = "responses"
    /\ enc.phase = "reading"
    /\ LET n == OnEnd(enc)
       IN  /\ enc' = n.enc
           /\ emitted' = emitted \o n.out
    /\ UNCHANGED <<accountsFile, settings, rotator, now, rq, res, served, arg, ret>>

(***************************************************************************)
(* kilo-streamer.js: streamOpenAIChat, one upstream chunk at a time.       *)
(***************************************************************************)
\* Lines 10-17: the locals when the generator starts.
NewChatEncoder ==
    [ api |-> "chat", phase |-> "reading", hasEmittedStart |-> FALSE, blockIndex |-> 0,
      currentBlockType |-> "null", currentToolCallId |-> "null",
      stopReason |-> "end_turn", consumed |-> 0 ]

\* toolCall.id: the first chunk of a call carries it, the later ones do not.
ToolCallIds == {"undefined", "call_a", "call_b"}

\* One entry of delta.tool_calls; args is function.arguments.
ToolCalls == [id : ToolCallIds, args : {"", "x"}]

ToolCallLists ==
    {<<>>} \cup {<<tc>> : tc \in ToolCalls}
    \cup {<<[id |-> "call_a", args |-> ""], tc>> : tc \in {t \in ToolCalls : t.args = "x"}}

\* A data line: one without choices (usage only), or choices[0] with its
\* delta.content ("" when absent), delta.tool_calls and finish_reason.
Chunks ==
    { [hasChoice |-> FALSE, content |-> "", tool_calls |-> <<>>, finish_reason |-> "null"] }
    \cup [ hasChoice : {TRUE}, content : {"", "x"}, tool_calls : ToolCallLists,
           finish_reason : {"null", "stop", "tool_calls"} ]

\* Lines 63-68 with line 40.
startTextBlock(e, index) ==
    [ enc |-> [e EXCEPT !.blockIndex = index, !.currentBlockType = "text",
                        !.currentToolCallId = "null"],
      out |-> <<Ev("content_block_start", index, "text")>> ]

\* Lines 70-81 with line 40.
startToolBlock(e, index, toolCall) ==
    [ enc |-> [e EXCEPT !.blockIndex = index, !.currentBlockType = "tool_use",
                        !.currentToolCallId = toolCall.id, !.stopReason = "tool_use"],
      out |-> <<Ev("content_block_start", index, "tool_use")>> ]

\* Lines 86-98.
HandleContent(e, content) ==
    IF content = "" THEN [enc |-> e, out |-> <<>>]
    ELSE LET first == ~e.hasEmittedStart
             switch == ~first /\ e.currentBlockType # "text"
             st == IF first THEN startTextBlock([e EXCEPT !.hasEmittedStart = TRUE], e.blockIndex)
                   ELSE IF switch THEN startTextBlock(e, e.blockIndex + 1)
                   ELSE [enc |-> e, out |-> <<>>]
         IN  [ enc |-> st.enc,
               out |-> (IF first THEN <<MessageStart>> ELSE <<>>)
                       \o (IF switch THEN <<Ev("content_block_stop", e.blockIndex, "none")>>
                           ELSE <<>>)
                       \o st.out
                       \o <<Ev("content_block_delta", st.enc.blockIndex, "text")>> ]

\* Lines 102-123: one pass of the loop over delta.tool_calls.
HandleToolCall(e, toolCall) ==
    LET e1 == [e EXCEPT !.hasEmittedStart = TRUE]
        new == e.currentBlockType # "tool_use" \/ e.currentToolCallId # toolCall.id
        close == new /\ e.currentBlockType # "null"
        st == IF new
              THEN startToolBlock(e1, IF close THEN e.blockIndex + 1 ELSE e.blockIndex, toolCall)
              ELSE [enc |-> e1, out |-> <<>>]
    IN  [ enc |-> st.enc,
          out |-> (IF e.hasEmittedStart THEN <<>> ELSE <<MessageStart>>)
                  \o (IF close THEN <<Ev("content_block_stop", e.blockIndex, "none")>> ELSE <<>>)
                  \o st.out
                  \o (IF toolCall.args # ""
                      THEN <<Ev("content_block_delta", st.enc.blockIndex, "tool_use")>>
                      ELSE <<>>) ]

RECURSIVE HandleToolCalls(_, _)
HandleToolCalls(e, toolCalls) ==
    IF toolCalls = <<>> THEN [enc |-> e, out |-> <<>>]
    ELSE LET head == HandleToolCall(e, Head(toolCalls))
             rest == HandleToolCalls(head.enc, Tail(toolCalls))
         IN  [enc |-> rest.enc, out |-> head.out \o rest.out]

\* Lines 83-128.
handleDelta(e, delta) ==
    LET c == HandleContent(e, delta.content)
        t == HandleToolCalls(c.enc, delta.tool_calls)
    IN  [enc |-> t.enc, out |-> c.out \o t.out]

\* Lines 144-164: one data line of the upstream body.
OnChunk(e, chunk) ==
    IF ~chunk.hasChoice THEN [enc |-> e, out |-> <<>>]
    ELSE LET d == handleDelta(e, chunk)
         IN  [ enc |-> IF chunk.finish_reason = "null" THEN d.enc
                       ELSE [d.enc EXCEPT !.stopReason =
                               IF chunk.finish_reason = "tool_calls" THEN "tool_use"
                               ELSE "end_turn"],
               out |-> d.out ]

\* The end of the stream with the open block left open.
OnChatEnd_NoStop(e) ==
    [ enc |-> [e EXCEPT !.phase = "ended", !.hasEmittedStart = TRUE],
      out |-> (IF e.hasEmittedStart THEN <<>> ELSE <<MessageStart>>)
              \o << Ev("message_delta", 0, e.stopReason), Ev("message_stop", 0, "none") >> ]

\* Lines 171-193: after the upstream body ends.
OnChatEnd(e) ==
    LET tail == << Ev("message_delta", 0, e.stopReason), Ev("message_stop", 0, "none") >>
    IN  IF ~e.hasEmittedStart
        THEN [ enc |-> [e EXCEPT !.hasEmittedStart = TRUE, !.phase = "ended"],
               out |-> << MessageStart, Ev("content_block_start", e.blockIndex, "text"),
                          Ev("content_block_delta", e.blockIndex, "text"),
                          Ev("content_block_stop", e.blockIndex, "none") >> \o tail ]
        ELSE [ enc |-> [e EXCEPT !.phase = "ended"],
               out |-> (IF e.currentBlockType # "null"
                        THEN <<Ev("content_block_stop", e.blockIndex, "none")>> ELSE <<>>)
                       \o tail ]

ChatChunk(chunk) ==
    /\ enc.api = "chat"
    /\ enc.phase = "reading"
    /\ enc.consumed < MaxEvents
    /\ LET n == OnChunk(enc, chunk)
       IN  /\ enc' = [n.enc EXCEPT !.consumed = enc.consumed + 1]
           /\ emitted' = emitted \o n.out
    /\ UNCHANGED <<accountsFile, settings, rotator, now, rq, res, served, arg, ret>>

ChatEnds ==
    /\ enc.api = "chat"
    /\ enc.phase = "reading"
    /\ LET n == OnChatEnd(enc)
       IN  /\ enc' = n.enc
           /\ emitted' = emitted \o n.out
    /\ UNCHANGED <<accountsFile, settings, rotator, now, rq, res, served, arg, ret>>

\* The client closes the connection while pipeSSEStream is in its for await
\* loop over streamResponsesAPI.  pipeSSEStream registers no listener for it, hands the generator no
\* signal and never cancels the reader, so no variable of the stream changes;
\* ret records the close and how far the stream was: the events written and
\* the upstream events read.
ClientAborts ==
    /\ enc.api = "responses"
    /\ enc.phase = "reading"
    /\ emitted # <<>>
    /\ ret = NoValue
    /\ ret' = [fn |-> "close", written |-> Len(emitted), consumed |-> enc.consumed]
    /\ UNCHANGED <<accountsFile, settings, rotator, now, rq, res, served, enc, emitted, arg>>

(***************************************************************************)
(* format-converter.js: the tool id codec.  An identifier is the sequence  *)
(* of its parts: each part is one of the three prefixes or a run of other  *)
(* characters; <<>> is the empty string, or no identifier at all.          *)
(***************************************************************************)
IdParts == {"toolu_", "call_", "fc_", "abc"}

RECURSIVE SeqsUpTo(_, _)
SeqsUpTo(S, n) ==
    IF n = 0 THEN {<<>>}
    ELSE LET shorter == SeqsUpTo(S, n - 1)
         IN  shorter \cup {Append(q, x) : q \in {r \in shorter : Len(r) = n - 1}, x \in S}

IdStrings == SeqsUpTo(IdParts, MaxIdParts)

\* crypto.randomBytes(12).toString('hex')
RandomHex == {"9f3a", "c07d"}

StartsWith(id, prefix) == id # <<>> /\ Head(id) = prefix

toOpenAIToolId(anthropicId, rnd) ==
    IF anthropicId = <<>> THEN <<"fc_", rnd>>
    ELSE IF StartsWith(anthropicId, "fc_") THEN anthropicId
    ELSE LET baseId == IF StartsWith(anthropicId, "call_") \/ StartsWith(anthropicId, "toolu_")
                       THEN Tail(anthropicId) ELSE anthropicId
         IN  <<"fc_">> \o baseId

\* toAnthropicToolId with the fc_ prefix left in place.
toAnthropicToolId_NoStrip(openAIId, rnd) ==
    IF openAIId = <<>> THEN <<"toolu_", rnd>>
    ELSE IF StartsWith(openAIId, "toolu_") THEN openAIId
    ELSE <<"toolu_">> \o openAIId

toAnthropicToolId(openAIId, rnd) ==
    IF openAIId = <<>> THEN <<"toolu_", rnd>>
    ELSE IF StartsWith(openAIId, "toolu_") THEN openAIId
    ELSE LET baseId == IF StartsWith(openAIId, "fc_") THEN Tail(openAIId) ELSE openAIId
         IN  <<"toolu_">> \o baseId

\* a || b on identifiers
OrElse(a, b) == IF a # <<>> THEN a ELSE b

\* A function_call item of the upstream output: its call_id and its id.
FunctionCallItems ==
    { [kind |-> "function_call", call_id |-> c, id |-> i] :
        c \in IdStrings, i \in {<<>>, <<"fc_", "abc">>} }

\* response-streamer.js lines 124-142: the id on the content_block_start of a
\* tool_use block.
ToolUseStartId(item) == OrElse(item.call_id, item.id)

\* convertOutputToAnthropic, lines 366-368: the id of the tool_use block.
ConvertedToolUseId(item, rnd) == toAnthropicToolId(OrElse(item.call_id, item.id), rnd)

\* toOpenAIToolId(toAnthropicToolId(toOpenAIToolId(x)))
RoundTrip ==
    /\ arg.kind = "function_call"
    /\ ret = NoValue
    /\ \E r1 \in RandomHex, r2 \in RandomHex, r3 \in RandomHex :
         LET upstream == toOpenAIToolId(arg.call_id, r1)
         IN  ret' = [ fn |-> "round trip", upstream |-> upstream,
                      again |-> toOpenAIToolId(toAnthropicToolId(upstream, r2), r3) ]
    /\ UNCHANGED <<accountsFile, settings, rotator, now, rq, res, served, enc, emitted, arg>>

\* The item reaches the client on the streaming path.
StreamToolUse ==
    /\ arg.kind = "function_call"
    /\ ret = NoValue
    /\ ret' = [fn |-> "streamResponsesAPI", id |-> ToolUseStartId(arg)]
    /\ UNCHANGED <<accountsFile, settings, rotator, now, rq, res, served, enc, emitted, arg>>

\* The item reaches the client on the non-streaming path.
ConvertToolUse ==
    /\ arg.kind = "function_call"
    /\ ret = NoValue
    /\ \E rnd \in RandomHex :
         ret' = [fn |-> "convertOutputToAnthropic", id |-> ConvertedToolUseId(arg, rnd)]
    /\ UNCHANGED <<accountsFile, settings, rotator, now, rq, res, served, enc, emitted, arg>>

(***************************************************************************)
(* thinking-utils.js: processing of an assistant message's content array.  *)
(* A block is its type, the set of the field names it carries, the length  *)
(* of its signature (0 when it has none) and its text ("" when it has      *)
(* none).                                                                  *)
(***************************************************************************)
BlockFields(type) ==
    CASE type = "thinking" -> {"type", "thinking", "signature"}
      [] type = "redacted_thinking" -> {"type", "data"}
      [] type = "text" -> {"type", "text"}
      [] type = "tool_use" -> {"type", "id", "name", "input"}

Block(type, signature, text, extra) ==
    [ type |-> type,
      keys |-> (BlockFields(type) \ (IF signature = 0 THEN {"signature"} ELSE {}))
                  \cup (IF extra THEN {"cache_control"} ELSE {}),
      signature |-> signature,
      text |-> text ]

Blocks ==
    {Block("thinking", n, "", FALSE) : n \in {0, MIN_SIGNATURE_LENGTH - 1, MIN_SIGNATURE_LENGTH, 60}}
    \cup {Block("thinking", 60, "", TRUE)}
    \cup {Block("redacted_thinking", 0, "", e) : e \in BOOLEAN}
    \cup {Block("text", 0, t, FALSE) : t \in {"", " ", "x"}}
    \cup {Block("text", 0, "x", TRUE)}
    \cup {Block("tool_use", 0, "", e) : e \in BOOLEAN}

ContentArrays == SeqsUpTo(Blocks, MaxBlocks)

isThinkingPart(part) ==
    \/ part.type = "thinking"
    \/ part.type = "redacted_thinking"
    \/ "thinking" \in part.keys
    \/ "thought" \in part.keys

\* hasValidSignature that accepts any signature string.
hasValidSignature_AnyString(part) == "signature" \in part.keys

hasValidSignature(part) ==
    "signature" \in part.keys /\ part.signature >= MIN_SIGNATURE_LENGTH

sanitizeAnthropicThinkingBlock(block) ==
    IF block.type = "thinking"
    THEN [block EXCEPT !.keys = @ \cap {"type", "thinking", "signature"}]
    ELSE IF block.type = "redacted_thinking"
    THEN [block EXCEPT !.keys = @ \cap {"type", "data"}, !.signature = 0]
    ELSE block

sanitizeTextBlock(block) ==
    IF block.type # "text" THEN block
    ELSE [block EXCEPT !.keys = @ \cap {"type", "text"}]

sanitizeToolUseBlock(block) ==
    IF block.type # "tool_use" THEN block
    ELSE [block EXCEPT !.keys = @ \cap {"type", "id", "name", "input", "thoughtSignature"}]

\* The backward loop of removeTrailingThinkingBlocks: i is the position
\* under inspection, endIndex the number of blocks kept so far.
RECURSIVE ScanBack(_, _, _)
ScanBack(content, i, endIndex) ==
    IF i = 0 THEN endIndex
    ELSE IF isThinkingPart(content[i])
    THEN IF ~hasValidSignature(content[i])
         THEN ScanBack(content, i - 1, i - 1)
         ELSE endIndex
    ELSE endIndex

removeTrailingThinkingBlocks(content) ==
    IF content = <<>> THEN content
    ELSE SubSeq(content, 1, ScanBack(content, Len(content), Len(content)))

RECURSIVE restoreThinkingSignatures(_)
restoreThinkingSignatures(content) ==
    IF content = <<>> THEN <<>>
    ELSE LET block == Head(content)
             rest == restoreThinkingSignatures(Tail(content))
         IN  IF block.type # "thinking" THEN <<block>> \o rest
             ELSE IF block.signature > 0 /\ block.signature >= MIN_SIGNATURE_LENGTH
             THEN <<sanitizeAnthropicThinkingBlock(block)>> \o rest
             ELSE rest

\* String.prototype.trim on the texts of the model.
Trim(text) == IF text = " " THEN "" ELSE text

\* The three groups that reorderAssistantContent collects, in input order.
RECURSIVE Group(_, _)
Group(content, name) ==
    IF content = <<>> THEN <<>>
    ELSE LET block == Head(content)
             rest == Group(Tail(content), name)
             bucket == IF block.type \in {"thinking", "redacted_thinking"} THEN "thinking"
                       ELSE IF block.type = "tool_use" THEN "tool_use"
                       ELSE IF block.type = "text"
                       THEN IF block.text # "" /\ Trim(block.text) # "" THEN "text" ELSE "dropped"
                       ELSE "text"
             pushed == IF block.type \in {"thinking", "redacted_thinking"}
                       THEN sanitizeAnthropicThinkingBlock(block)
                       ELSE IF block.type = "tool_use" THEN sanitizeToolUseBlock(block)
                       ELSE IF block.type = "text" THEN sanitizeTextBlock(block)
                       ELSE block
         IN  IF bucket = name THEN <<pushed>> \o rest ELSE rest

\* reorderAssistantContent with the tool_use group ahead of the text group.
reorderAssistantContent_ToolsFirst(content) ==
    IF Len(content) = 1
    THEN IF content[1].type \in {"thinking", "redacted_thinking"}
         THEN <<sanitizeAnthropicThinkingBlock(content[1])>>
         ELSE content
    ELSE Group(content, "thinking") \o Group(content, "tool_use") \o Group(content, "text")

reorderAssistantContent(content) ==
    IF Len(content) = 1
    THEN IF content[1].type \in {"thinking", "redacted_thinking"}
         THEN <<sanitizeAnthropicThinkingBlock(content[1])>>
         ELSE content
    ELSE Group(content, "thinking") \o Group(content, "text") \o Group(content, "tool_use")

processAssistantContent(content) ==
    reorderAssistantContent(removeTrailingThinkingBlocks(restoreThinkingSignatures(content)))

RemoveTrailingThinkingBlocks ==
    /\ arg.kind = "content"
    /\ ret = NoValue
    /\ ret' = [fn |-> "removeTrailingThinkingBlocks",
               content |-> removeTrailingThinkingBlocks(arg.content)]
    /\ UNCHANGED <<accountsFile, settings, rotator, now, rq, res, served, enc, emitted, arg>>

ProcessAssistantContent ==
    /\ arg.kind = "content"
    /\ ret = NoValue
    /\ ret' = [fn |-> "processAssistantContent",
               content |-> processAssistantContent(arg.content)]
    /\ UNCHANGED <<accountsFile, settings, rotator, now, rq, res, served, enc, emitted, arg>>

(***************************************************************************)
(* The strategies and the tracker called on an account array that carries  *)
(* tracker fields.  arg is the array, rotator.strategy the strategy        *)
(* object, ret the record of the last call: its arguments and its result.  *)
(***************************************************************************)
\* An account of the array at time t, in one of the states the tracker fields
\* give it for the model gpt-5.2; "expired" has an expired limit for that
\* model and a running limit for the other one.
TrackedAccount(kind, email, t) ==
    LET limit(ms) == [isRateLimited |-> TRUE, resetTime |-> t + ms, actualResetMs |-> ms]
        expired == [isRateLimited |-> TRUE, resetTime |-> t - 1000, actualResetMs |-> 10000]
    IN  [ email |-> email,
          isInvalid |-> kind = "invalid",
          enabled |-> kind # "disabled",
          cooldownUntil |-> IF kind = "cooling down" THEN t + 30000 ELSE 0,
          modelRateLimits |->
            [ m \in ModelIds |->
                CASE m = "gpt-5.2" /\ kind = "limited 120 s" -> limit(MAX_WAIT_BEFORE_ERROR_MS)
                  [] m = "gpt-5.2" /\ kind = "limited 120001 ms" -> limit(MAX_WAIT_BEFORE_ERROR_MS + 1)
                  [] m = "gpt-5.2" /\ kind = "expired" -> expired
                  [] m = "gpt-5.3-codex" /\ kind = "expired" -> limit(40000)
                  [] OTHER -> NoLimit ] ]

TrackedPools(t) ==
    LET AccountKinds == {"healthy", "invalid", "disabled", "cooling down",
                         "limited 120 s", "limited 120001 ms", "expired"}
    IN  { [i \in 1..Len(kinds) |-> TrackedAccount(kinds[i], i, t)] :
            kinds \in SeqsUpTo(AccountKinds, MaxTracked) }

\* The 429 answers whose reset parseResetTime reads from each of its sources.
TrackerAnswers ==
    { Answer(429, Header(0), NoHeader, "plain", <<>>, FALSE),
      Answer(429, Header(10), NoHeader, "plain", <<>>, FALSE),
      Answer(429, NanHeader, Header(150), "plain", <<>>, FALSE),
      Answer(429, NoHeader, Header(50), "plain", <<2500>>, FALSE),
      Answer(429, NoHeader, NoHeader, "plain", <<>>, FALSE) }

\* strategy.isAccountUsable(accounts[index], modelId); accounts[accounts.length]
\* is undefined.
IsAccountUsable(index, modelId) ==
    /\ arg.kind = "accounts"
    /\ ret.fn = "none"
    /\ ret' = [ fn |-> "isAccountUsable", index |-> index, modelId |-> modelId,
                value |-> IF index >= Len(arg.accounts) THEN FALSE
                          ELSE isAccountUsable(arg.accounts[index + 1], modelId, now) ]
    /\ UNCHANGED <<accountsFile, settings, rotator, now, rq, res, served, enc, emitted, arg>>

GetMinWaitTimeMs(modelId) ==
    /\ arg.kind = "accounts"
    /\ ret.fn = "none"
    /\ ret' = [ fn |-> "getMinWaitTimeMs", modelId |-> modelId,
                value |-> getMinWaitTimeMs(arg.accounts, modelId, now) ]
    /\ UNCHANGED <<accountsFile, settings, rotator, now, rq, res, served, enc, emitted, arg>>

\* strategy.selectAccount(accounts, modelId, {currentIndex}); n counts the
\* selections of the behaviour.
SelectAccount(modelId, currentIndex) ==
    /\ arg.kind = "accounts"
    /\ ret.fn \in {"none", "selectAccount"}
    /\ ret.n < MaxSelections
    /\ ret.fn = "selectAccount" => modelId = ret.modelId /\ currentIndex = ret.currentIndex
    /\ rotator.strategy.name = "round-robin" => currentIndex = 0
    /\ LET result == IF rotator.strategy.name = "round-robin"
                     THEN RoundRobinSelectAccount(arg.accounts, modelId, rotator.strategy.state, now)
                     ELSE StickySelectAccount(arg.accounts, modelId, currentIndex,
                                              rotator.strategy.state, now)
       IN  /\ ret' = [ fn |-> "selectAccount", n |-> ret.n + 1, modelId |-> modelId,
                       currentIndex |-> currentIndex, accounts |-> arg.accounts,
                       cursor |-> rotator.strategy.state,
                       found |-> result.found, index |-> result.index,
                       waitMs |-> result.waitMs ]
           /\ rotator' = [rotator EXCEPT !.strategy.state = result.state]
    /\ UNCHANGED <<accountsFile, settings, now, rq, res, served, enc, emitted, arg>>

\* sendMessageStream, lines 69-74: the upstream answers the call made with the
\* account of the first selection with 429.
RateLimited(response) ==
    /\ arg.kind = "accounts"
    /\ ret.fn = "selectAccount"
    /\ ret.found
    /\ ret.n = 1
    /\ arg' = [arg EXCEPT !.accounts =
                 markRateLimited(@, @[ret.index + 1].email, parseResetTime(response, now),
                                 ret.modelId, now)]
    /\ UNCHANGED <<accountsFile, settings, rotator, now, rq, res, served, enc, emitted, ret>>

\* handleMessages, lines 55-66, with a rotator whose methods see the array:
\* the branch taken when isAllRateLimited is true.  ms is the argument of
\* sleep, 0 when the branch returns the error instead.
AllRateLimitedWait(modelId) ==
    /\ arg.kind = "accounts"
    /\ ret.fn = "none"
    /\ isAllRateLimited(arg.accounts, modelId, now)
    /\ LET minWait == getMinWaitTimeMs(arg.accounts, modelId, now)
       IN  ret' = [ fn |-> "sleep", modelId |-> modelId,
                    failed |-> minWait > MAX_WAIT_BEFORE_ERROR_MS,
                    ms |-> IF minWait > MAX_WAIT_BEFORE_ERROR_MS THEN 0
                           ELSE minWait + ALL_LIMITED_EXTRA_SLEEP_MS ]
    /\ UNCHANGED <<accountsFile, settings, rotator, now, rq, res, served, enc, emitted, arg>>

\* clearInvalid(accounts, email) for the invalid account a selection has
\* left, between the first selection and the second.
ClearInvalid(email) ==
    /\ arg.kind = "accounts"
    /\ ret.fn = "selectAccount"
    /\ ret.n = 1
    /\ ret.found
    /\ arg.accounts = ret.accounts
    /\ ret.currentIndex < Len(arg.accounts)
    /\ arg.accounts[ret.currentIndex + 1].email = email
    /\ \E i \in 1..Len(arg.accounts) : arg.accounts[i].email = email /\ arg.accounts[i].isInvalid
    /\ arg' = [arg EXCEPT !.accounts = clearInvalid(@, email)]
    /\ UNCHANGED <<accountsFile, settings, rotator, now, rq, res, served, enc, emitted, ret>>

\* clearExpiredLimits(accounts): the array after the sweep and the count
\* returned.
ClearExpiredLimits ==
    /\ arg.kind = "accounts"
    /\ ret.fn = "none"
    /\ arg' = [arg EXCEPT !.accounts = clearExpiredLimits(@, now)]
    /\ ret' = [ fn |-> "clearExpiredLimits",
                value |-> Cardinality(
                    { <<i, m>> \in (1..Len(arg.accounts)) \X ModelIds :
                        /\ arg.accounts[i].modelRateLimits[m].isRateLimited
                        /\ arg.accounts[i].modelRateLimits[m].resetTime <= now }) ]
    /\ UNCHANGED <<accountsFile, settings, rotator, now, rq, res, served, enc, emitted>>

(***************************************************************************)
(* signature-cache.js and its callers in format-converter.js.  arg holds   *)
(* the two Maps, each key mapped to <<>> (no entry) or to one entry        *)
(* <<[value, timestamp]>>, and under `cached` the last caching of a        *)
(* qualifying signature under each key, which no lookup removes.  A        *)
(* signature is its text and its length.                                   *)
(***************************************************************************)
Signatures ==
    { [text |-> "sig A", length |-> MIN_SIGNATURE_LENGTH],
      [text |-> "sig B", length |-> MIN_SIGNATURE_LENGTH + 10],
      [text |-> "sig C", length |-> MIN_SIGNATURE_LENGTH - 1] }

NoEntries == [ signatureCache |-> [id \in {"toolu_a"} |-> <<>>],
               thinkingSignatureCache |-> [sig \in {g.text : g \in Signatures} |-> <<>>] ]

\* convertOutputToAnthropic, lines 376-379, and cacheSignature.
CacheSignature(toolUseId, signature) ==
    /\ arg.kind = "caches"
    /\ LET entry == << [value |-> signature.text, timestamp |-> now] >>
       IN  arg' = IF signature.length >= MIN_SIGNATURE_LENGTH
                  THEN [arg EXCEPT !.signatureCache[toolUseId] = entry,
                                   !.cached.signatureCache[toolUseId] = entry]
                  ELSE arg
    /\ ret' = [fn |-> "cacheSignature", key |-> toolUseId]
    /\ UNCHANGED <<accountsFile, settings, rotator, now, rq, res, served, enc, emitted>>

\* getCachedSignature that does not check the TTL.
GetCachedSignature_Forever(toolUseId) ==
    /\ arg.kind = "caches"
    /\ ret' = [ fn |-> "getCachedSignature", at |-> now, key |-> toolUseId,
                value |-> IF arg.signatureCache[toolUseId] = <<>> THEN "null"
                          ELSE arg.signatureCache[toolUseId][1].value ]
    /\ UNCHANGED <<accountsFile, settings, rotator, now, rq, res, served, enc, emitted, arg>>

GetCachedSignature(toolUseId) ==
    /\ arg.kind = "caches"
    /\ LET entry == arg.signatureCache[toolUseId]
       IN  IF entry = <<>>
           THEN /\ ret' = [fn |-> "getCachedSignature", at |-> now, key |-> toolUseId, value |-> "null"]
                /\ arg' = arg
           ELSE IF now - entry[1].timestamp > SIGNATURE_CACHE_TTL_MS
           THEN /\ ret' = [fn |-> "getCachedSignature", at |-> now, key |-> toolUseId, value |-> "null"]
                /\ arg' = [arg EXCEPT !.signatureCache[toolUseId] = <<>>]
           ELSE /\ ret' = [fn |-> "getCachedSignature", at |-> now, key |-> toolUseId,
                           value |-> entry[1].value]
                /\ arg' = arg
    /\ UNCHANGED <<accountsFile, settings, rotator, now, rq, res, served, enc, emitted>>

\* convertOutputToAnthropic, lines 382-388, and cacheThinkingSignature.
CacheThinkingSignature(signature, modelFamily) ==
    /\ arg.kind = "caches"
    /\ LET entry == << [value |-> modelFamily, timestamp |-> now] >>
       IN  arg' = IF signature.length >= MIN_SIGNATURE_LENGTH
                  THEN [arg EXCEPT !.thinkingSignatureCache[signature.text] = entry,
                                   !.cached.thinkingSignatureCache[signature.text] = entry]
                  ELSE arg
    /\ ret' = [fn |-> "cacheThinkingSignature", key |-> signature.text]
    /\ UNCHANGED <<accountsFile, settings, rotator, now, rq, res, served, enc, emitted>>

GetCachedSignatureFamily(signature) ==
    /\ arg.kind = "caches"
    /\ LET entry == arg.thinkingSignatureCache[signature.text]
       IN  IF entry = <<>>
           THEN /\ ret' = [fn |-> "getCachedSignatureFamily", at |-> now, key |-> signature.text,
                           value |-> "null"]
                /\ arg' = arg
           ELSE IF now - entry[1].timestamp > SIGNATURE_CACHE_TTL_MS
           THEN /\ ret' = [fn |-> "getCachedSignatureFamily", at |-> now, key |-> signature.text,
                           value |-> "null"]
                /\ arg' = [arg EXCEPT !.thinkingSignatureCache[signature.text] = <<>>]
           ELSE /\ ret' = [fn |-> "getCachedSignatureFamily", at |-> now, key |-> signature.text,
                           value |-> entry[1].value]
                /\ arg' = arg
    /\ UNCHANGED <<accountsFile, settings, rotator, now, rq, res, served, enc, emitted>>

\* Date.now() moves on, by the TTL or by one of the few milliseconds around
\* it.
TimePasses(ms) ==
    /\ arg.kind = "caches"
    /\ (now + ms) % SIGNATURE_CACHE_TTL_MS <= MaxCacheAge
    /\ now + ms <= SIGNATURE_CACHE_TTL_MS + MaxCacheAge
    /\ now' = now + ms
    /\ UNCHANGED <<accountsFile, settings, rotator, rq, res, served, enc, emitted, arg, ret>>

\* convertAnthropicToResponsesAPI on a conversation whose assistant message
\* holds a tool_use block with the id arg.id and whose next user message
\* holds a tool_result block with the tool_use_id arg.tool_use_id:
\* convertAssistantContentToOpenAI, lines 211-231, gives the function_call
\* item and convertUserContent, lines 173-179, the function_call_output item.
ConvertToolBlocks ==
    /\ arg.kind = "tool blocks"
    /\ ret = NoValue
    /\ \E rnd1 \in RandomHex, rnd2 \in RandomHex :
         /\ rnd1 # rnd2
         /\ ret' = [ fn |-> "convertAnthropicToResponsesAPI",
                     function_call |-> [call_id |-> toOpenAIToolId(arg.id, rnd1)],
                     function_call_output |-> [call_id |-> toOpenAIToolId(arg.tool_use_id, rnd2)] ]
    /\ UNCHANGED <<accountsFile, settings, rotator, now, rq, res, served, enc, emitted, arg>>

(***************************************************************************)
(* format-converter.js: sanitizeSchema.  A JSON value is tagged with its   *)
(* JavaScript type: [str], [num], [bool], [arr] with the sequence of its   *)
(* elements, and [obj].  An object of the input is the sequence of its     *)
(* entries in insertion order, an object of the output the function from   *)
(* its keys to their values.                                               *)
(***************************************************************************)
Str(s) == [str |-> s]
Num(n) == [num |-> n]
Bool(b) == [bool |-> b]
Arr(a) == [arr |-> a]
Obj(o) == [obj |-> o]
Entry(key, value) == [key |-> key, value |-> value]

IsArr(v) == "arr" \in DOMAIN v
IsObj(v) == "obj" \in DOMAIN v

\* Lines 273-280: the keywords dropped by name.
UnsupportedKeys ==
    {"$schema", "$id", "$ref", "$defs", "$comment", "additionalItems", "definitions",
     "examples", "minLength", "maxLength", "pattern", "format", "minItems", "maxItems",
     "minimum", "maximum", "exclusiveMinimum", "exclusiveMaximum",
     "allOf", "anyOf", "oneOf", "not"}

\* result[key] = value
SetKey(result, key, value) ==
    [k \in DOMAIN result \cup {key} |-> IF k = key THEN value ELSE result[k]]

RECURSIVE sanitizeSchema(_)
RECURSIVE SanitizeEntries(_, _, _)

\* Lines 258-335.  typeof an array is 'object' and its entries are its
\* indices, none of which is a key the loop keeps.
sanitizeSchema(schema) ==
    IF ~(IsObj(schema) \/ IsArr(schema))
    THEN Obj([type |-> Str("object")])
    ELSE LET result == IF IsArr(schema) THEN <<>>
                       ELSE SanitizeEntries(schema.obj, 1, <<>>)
             typed == IF "type" \in DOMAIN result THEN result
                      ELSE SetKey(result, "type", Str("object"))
         IN  Obj(IF typed["type"] = Str("object") /\ "properties" \notin DOMAIN typed
                 THEN SetKey(typed, "properties", Obj(<<>>))
                 ELSE typed)

\* Lines 266-322: the loop over Object.entries(schema), from entry i on.
SanitizeEntries(entries, i, result) ==
    IF i > Len(entries) THEN result
    ELSE LET key == entries[i].key
             value == entries[i].value
             nonNullTypes == SelectSeq(value.arr, LAMBDA t : t # Str("null"))
         IN  SanitizeEntries(entries, i + 1,
               IF key = "const" THEN SetKey(result, "enum", Arr(<<value>>))
               ELSE IF key \in UnsupportedKeys THEN result
               ELSE IF key = "additionalProperties" /\ "bool" \in DOMAIN value THEN result
               ELSE IF key = "type" /\ IsArr(value)
               THEN SetKey(result, "type",
                           IF Len(nonNullTypes) > 0 THEN nonNullTypes[1] ELSE Str("string"))
               ELSE IF key = "properties" /\ (IsObj(value) \/ IsArr(value))
               THEN SetKey(result, "properties",
                           IF IsArr(value)
                           THEN Obj([n \in DOMAIN value.arr |-> sanitizeSchema(value.arr[n])])
                           ELSE Obj([name \in {e.key : e \in {value.obj[n] : n \in DOMAIN value.obj}} |->
                                       LET n == CHOOSE n \in DOMAIN value.obj :
                                                  value.obj[n].key = name
                                       IN  sanitizeSchema(value.obj[n].value)]))
               ELSE IF key = "items"
               THEN SetKey(result, "items",
                           IF IsArr(value)
                           THEN Arr([n \in DOMAIN value.arr |-> sanitizeSchema(value.arr[n])])
                           ELSE IF IsObj(value) THEN sanitizeSchema(value)
                           ELSE value)
               ELSE IF key = "required" /\ IsArr(value) THEN SetKey(result, "required", value)
               ELSE IF key = "enum" /\ IsArr(value) THEN SetKey(result, "enum", value)
               ELSE IF key \in {"type", "description", "title"} THEN SetKey(result, key, value)
               ELSE result)

\* Schemas without a schema inside: the two of the specification, the
\* keywords the function drops, and values that are no schema object.
LeafSchemas ==
    { Obj(<<Entry("type", Arr(<<Str("string"), Str("null")>>))>>),
      Obj(<<Entry("type", Arr(<<Str("null"), Str("integer")>>))>>),
      Obj(<<Entry("type", Arr(<<Str("null")>>))>>),
      Obj(<<Entry("const", Str("x"))>>),
      Obj(<<Entry("type", Str("string")), Entry("const", Str("x"))>>),
      Obj(<<Entry("const", Str("x")), Entry("enum", Arr(<<Str("y")>>))>>),
      Obj(<<Entry("type", Str("string")), Entry("minLength", Num(1)),
            Entry("pattern", Str("^[a-z]+$"))>>),
      Obj(<<Entry("type", Str("object")), Entry("additionalProperties", Bool(FALSE)),
            Entry("$schema", Str("http://json-schema.org/draft-07/schema#"))>>),
      Obj(<<Entry("description", Str("d")),
            Entry("anyOf", Arr(<<Obj(<<Entry("const", Str("x"))>>)>>))>>),
      Obj(<<Entry("type", Str("string")),
            Entry("additionalProperties", Obj(<<Entry("const", Str("x"))>>))>>),
      Obj(<<Entry("type", Str("array")), Entry("items", Bool(TRUE))>>),
      Obj(<<>>),
      Arr(<<Str("string")>>),
      Str("string") }

\* A schema with schemas under properties and items.
Nest(inner) ==
    { Obj(<<Entry("type", Str("object")),
            Entry("properties", Obj(<<Entry("val", inner[1]), Entry("mode", inner[2])>>)),
            Entry("required", Arr(<<Str("val")>>))>>),
      Obj(<<Entry("type", Str("array")), Entry("items", inner[1]),
            Entry("maxItems", Num(2))>>),
      Obj(<<Entry("items", Arr(<<inner[1], inner[2]>>))>>) }

Schemas ==
    LET nested == UNION {Nest(pair) : pair \in LeafSchemas \X LeafSchemas}
    IN  LeafSchemas \cup nested
        \cup UNION {Nest(<<a, Obj(<<Entry("const", Str("x"))>>)>>) : a \in nested}

\* convertTools, line 254: sanitizeSchema(tool.input_schema).
SanitizeSchema ==
    /\ arg.kind = "schema"
    /\ ret = NoValue
    /\ ret' = [fn |-> "sanitizeSchema", schema |-> sanitizeSchema(arg.schema)]
    /\ UNCHANGED <<accountsFile, settings, rotator, now, rq, res, served, enc, emitted, arg>>

(***************************************************************************)
(* account-manager.js: refreshAccountToken beside the other writers of the *)
(* accounts file.  accountsFile is data.accounts of the file and           *)
(* arg.activeAccount its data.activeAccount (0 for null); ret holds the    *)
(* refresh in flight: its email and the data it loaded before its await.   *)
(***************************************************************************)
\* refreshAccountToken, lines 212-224: loadAccounts(), the account found with
\* a refresh token, and the await of the token endpoint begun.
RefreshStarts(email) ==
    /\ arg.kind = "manager"
    /\ ret.fn = "none"
    /\ \E i \in 1..Len(accountsFile) : accountsFile[i].email = email
    /\ ret' = [ fn |-> "refreshAccountToken", pc |-> "await", email |-> email,
                data |-> [accounts |-> accountsFile, activeAccount |-> arg.activeAccount] ]
    /\ UNCHANGED <<accountsFile, settings, rotator, now, rq, res, served, enc, emitted, arg>>

\* Lines 225-254: the token endpoint has answered.  On success the tokens are
\* set on the account of the data loaded before the await, and that data is
\* saved.
RefreshCompletes(ok) ==
    /\ arg.kind = "manager"
    /\ ret.fn = "refreshAccountToken"
    /\ ret.pc = "await"
    /\ ret' = [ret EXCEPT !.pc = IF ok THEN "refreshed" ELSE "failed"]
    /\ IF ok
       THEN /\ accountsFile' = [ i \in 1..Len(ret.data.accounts) |->
                                   IF /\ ret.data.accounts[i].email = ret.email
                                      /\ \A j \in 1..(i - 1) :
                                            ret.data.accounts[j].email # ret.email
                                   THEN [ret.data.accounts[i] EXCEPT !.tokens = "valid"]
                                   ELSE ret.data.accounts[i] ]
            /\ arg' = [arg EXCEPT !.activeAccount = ret.data.activeAccount]
       ELSE UNCHANGED <<accountsFile, arg>>
    /\ UNCHANGED <<settings, rotator, now, rq, res, served, enc, emitted>>

\* setActiveAccount(email), lines 106-119.
SetActiveAccount(email) ==
    /\ arg.kind = "manager"
    /\ \E i \in 1..Len(accountsFile) : accountsFile[i].email = email
    /\ arg' = [arg EXCEPT !.activeAccount = email]
    /\ UNCHANGED <<accountsFile, settings, rotator, now, rq, res, served, enc, emitted, ret>>

\* removeAccount(email), lines 121-153.
RemoveAccount(email) ==
    /\ arg.kind = "manager"
    /\ \E i \in 1..Len(accountsFile) : accountsFile[i].email = email
    /\ accountsFile' = SelectSeq(accountsFile, LAMBDA a : a.email # email)
    /\ arg' = [arg EXCEPT !.activeAccount =
                 IF @ # email THEN @
                 ELSE IF accountsFile' = <<>> THEN 0 ELSE accountsFile'[1].email]
    /\ UNCHANGED <<settings, rotator, now, rq, res, served, enc, emitted, ret>>

PoolSizes == {0, 1, 2, MaxAccounts}

Init ==
    /\ \E n \in PoolSizes :
         \E t1 \in {"valid", "expiring", "missing"} :
           accountsFile = [ i \in 1..n |->
                              [email |-> i, tokens |-> IF i = 1 THEN t1 ELSE "valid"] ]
    /\ settings \in { [accountStrategy |-> a, haikuKiloModel |-> "kimi-k2.5"] :
                        a \in {"sticky", "round-robin"} }
    /\ rotator = [currentStrategy |-> "null", strategy |-> createStrategy("sticky")]
    /\ now = 0
    /\ rq = IdleRequest
    /\ res = NewResponse
    /\ served = 0
    /\ enc = IdleEncoder
    /\ emitted = <<>>
    /\ arg = NoValue
    /\ ret = NoValue

Next ==
    \/ \E model \in RequestModels, stream \in BOOLEAN : ReceiveRequest(model, stream)
    \/ LoopIteration
    \/ SleepEnds
    \/ ResolveCredentials
    \/ StreamDirectWithRotation
    \/ SendDirectWithRotation
    \/ StreamKilo
    \/ SendKilo
    \/ \E name \in {"sticky", "round-robin"} : SetAccountStrategy(name)

Spec == Init /\ [][Next]_vars

\* One run of streamResponsesAPI or of streamOpenAIChat over an upstream body
\* of at most MaxEvents events.
StreamInit ==
    /\ accountsFile = <<>>
    /\ settings = [accountStrategy |-> "sticky", haikuKiloModel |-> "kimi-k2.5"]
    /\ rotator = [currentStrategy |-> "null", strategy |-> createStrategy("sticky")]
    /\ now = 0
    /\ rq = IdleRequest
    /\ res = NewResponse
    /\ served = 0
    /\ enc \in {NewEncoder, NewChatEncoder}
    /\ emitted = <<>>
    /\ arg = NoValue
    /\ ret = NoValue

StreamNext ==
    \/ \E event \in UpstreamEvents : UpstreamEvent(event)
    \/ UpstreamEnds
    \/ \E chunk \in Chunks : ChatChunk(chunk)
    \/ ChatEnds
    \/ ClientAborts

StreamSpec == StreamInit /\ [][StreamNext]_vars


\* One call of a codec function on one argument.
CodecInit ==
    /\ accountsFile = <<>>
    /\ settings = [accountStrategy |-> "sticky", haikuKiloModel |-> "kimi-k2.5"]
    /\ rotator = [currentStrategy |-> "null", strategy |-> createStrategy("sticky")]
    /\ now = 0
    /\ rq = IdleRequest
    /\ res = NewResponse
    /\ served = 0
    /\ enc = IdleEncoder
    /\ emitted = <<>>
    /\ arg \in FunctionCallItems \cup {[kind |-> "content", content |-> c] : c \in ContentArrays}
                \cup {[kind |-> "schema", schema |-> x] : x \in Schemas}
                \cup {[kind |-> "tool blocks", id |-> a, tool_use_id |-> b] :
                        a \in IdStrings, b \in SeqsUpTo(IdParts, MaxIdParts - 1)}
    /\ ret = NoValue

CodecNext ==
    \/ RoundTrip
    \/ StreamToolUse
    \/ ConvertToolUse
    \/ RemoveTrailingThinkingBlocks
    \/ ProcessAssistantContent
    \/ SanitizeSchema
    \/ ConvertToolBlocks

CodecSpec == CodecInit /\ [][CodecNext]_vars

\* The accounts file under one refresh and any number of removals and
\* switches of the active account.
ManagerInit ==
    /\ \E n \in 1..MaxTracked :
         /\ accountsFile \in [1..n -> {[email |-> e, tokens |-> t] :
                                          e \in 1..n, t \in {"valid", "expiring"}}]
         /\ \A i \in 1..n : accountsFile[i].email = i
    /\ settings = [accountStrategy |-> "sticky", haikuKiloModel |-> "kimi-k2.5"]
    /\ rotator = [currentStrategy |-> "null", strategy |-> createStrategy("sticky")]
    /\ now = 0
    /\ rq = IdleRequest
    /\ res = NewResponse
    /\ served = 0
    /\ enc = IdleEncoder
    /\ emitted = <<>>
    /\ arg \in {[kind |-> "manager", activeAccount |-> e] : e \in 1..Len(accountsFile)}
    /\ ret = NoValue

ManagerNext ==
    \/ \E email \in 1..MaxTracked : RefreshStarts(email)
    \/ \E ok \in BOOLEAN : RefreshCompletes(ok)
    \/ \E email \in 1..MaxTracked : SetActiveAccount(email)
    \/ \E email \in 1..MaxTracked : RemoveAccount(email)

ManagerSpec == ManagerInit /\ [][ManagerNext]_vars

\* A strategy object and the tracker at work on one account array.
TrackerInit ==
    /\ accountsFile = <<>>
    /\ settings = [accountStrategy |-> "sticky", haikuKiloModel |-> "kimi-k2.5"]
    /\ now = 100000
    /\ rq = IdleRequest
    /\ res = NewResponse
    /\ served = 0
    /\ enc = IdleEncoder
    /\ emitted = <<>>
    /\ arg \in {[kind |-> "accounts", accounts |-> a] : a \in TrackedPools(now)}
    /\ \E name \in {"sticky", "round-robin"} :
         \E cursor \in 0..Max(0, Len(arg.accounts) - 1) :
            /\ name = "sticky" => cursor = 0
            /\ rotator = [currentStrategy |-> name,
                          strategy |-> [createStrategy(name) EXCEPT !.state = cursor]]
    /\ ret = [fn |-> "none", n |-> 0]

TrackerNext ==
    \/ \E index \in 0..MaxTracked, modelId \in {"gpt-5.2", "gpt-5.3-codex"} :
          IsAccountUsable(index, modelId)
    \/ \E modelId \in {"gpt-5.2", "gpt-5.3-codex"} : GetMinWaitTimeMs(modelId)
    \/ \E modelId \in {"gpt-5.2", "gpt-5.3-codex"}, currentIndex \in 0..(MaxTracked - 1) :
          SelectAccount(modelId, currentIndex)
    \/ \E response \in TrackerAnswers : RateLimited(response)
    \/ \E email \in 1..MaxTracked : ClearInvalid(email)
    \/ \E modelId \in {"gpt-5.2", "gpt-5.3-codex"} : AllRateLimitedWait(modelId)
    \/ ClearExpiredLimits

TrackerSpec == TrackerInit /\ [][TrackerNext]_vars

\* The two signature caches of the process.
CacheInit ==
    /\ accountsFile = <<>>
    /\ settings = [accountStrategy |-> "sticky", haikuKiloModel |-> "kimi-k2.5"]
    /\ rotator = [currentStrategy |-> "null", strategy |-> createStrategy("sticky")]
    /\ now = 0
    /\ rq = IdleRequest
    /\ res = NewResponse
    /\ served = 0
    /\ enc = IdleEncoder
    /\ emitted = <<>>
    /\ arg = [ kind |-> "caches",
               signatureCache |-> NoEntries.signatureCache,
               thinkingSignatureCache |-> NoEntries.thinkingSignatureCache,
               cached |-> NoEntries ]
    /\ ret = NoValue

CacheNext ==
    \/ \E signature \in Signatures : CacheSignature("toolu_a", signature)
    \/ GetCachedSignature("toolu_a")
    \/ \E signature \in Signatures : CacheThinkingSignature(signature, "openai")
    \/ \E signature \in Signatures : GetCachedSignatureFamily(signature)
    \/ \E ms \in {1, SIGNATURE_CACHE_TTL_MS} : TimePasses(ms)

CacheSpec == CacheInit /\ [][CacheNext]_vars

\* Every step of a request that has been received is taken eventually: each
\* await of handleMessages resolves (the upstream answers, the sleep ends).
FairSpec ==
    /\ Spec
    /\ WF_vars(LoopIteration)
    /\ WF_vars(SleepEnds)
    /\ WF_vars(ResolveCredentials)
    /\ WF_vars(StreamDirectWithRotation)
    /\ WF_vars(SendDirectWithRotation)

(***************************************************************************)
(* Properties.                                                             *)
(***************************************************************************)
Direct == rq.pc # "idle" /\ ~rq.isKilo

\* The account of the pool, as the rotator's next read sees it.
PoolAccount(email) ==
    LET accounts == listAccounts(accountsFile)
    IN  accounts[CHOOSE i \in 1..Len(accounts) : accounts[i].email = email]

LongRateLimit(call) == call.status = 429 /\ call.resetMs > SHORT_RATE_LIMIT_THRESHOLD_MS
ShortRateLimit(call) == call.status = 429 /\ call.resetMs <= SHORT_RATE_LIMIT_THRESHOLD_MS

CleanStream == <<"events", "data: [DONE]">>

\* C1: a streaming request whose first upstream call was answered with a long
\* rate limit or an auth failure, in a pool with a second usable account, and
\* none of whose later calls failed, ends with one complete event stream
\* followed by [DONE], and no error frame or error status.
C1_FailoverInvisible ==
    ( /\ Direct /\ rq.stream /\ rq.pc = "done"
      /\ rq.poolSize >= 2
      /\ LongRateLimit(rq.firstCall) \/ rq.firstCall.status = 401
      /\ rq.laterFailures = 0 )
    => res.body = CleanStream /\ res.statusCode = 200 /\ res.ended

\* C2: after an upstream 429 whose reset exceeds 5000 ms, on the streaming and
\* the non-streaming path alike, the pool the next selection reads holds the
\* account's entry for the model as rate-limited until now + reset.
C2_LongLimitMarked ==
    ( /\ Direct /\ rq.pc \in {"loop", "done"}
      /\ LongRateLimit(rq.lastCall) )
    => LET entry == PoolAccount(rq.lastCall.email).modelRateLimits[rq.upstreamModel]
       IN  entry.isRateLimited /\ entry.resetTime = now + rq.lastCall.resetMs

\* C3: after an upstream 429 whose reset is at most 5000 ms the request does
\* not end there, and the account it next goes upstream with is the same one,
\* under either strategy.
C3_ShortLimitSameAccount ==
    (Direct /\ ShortRateLimit(rq.lastCall))
    => /\ rq.pc # "done"
       /\ rq.pc \in {"creds", "call"} => rq.account = rq.lastCall.email

\* C4: after an upstream 401 for an account, the pool holds it as invalid and
\* no later selection of the request returns it.
C4_InvalidNotSelected ==
    (Direct /\ rq.lastCall.status = 401)
    => /\ PoolAccount(rq.lastCall.email).isInvalid
       /\ rq.pc \in {"creds", "call"} => rq.account # rq.lastCall.email

\* C5: an upstream answer of 400, 403 or another non-2xx status that is
\* neither 401 nor 429 ends the request with that one error: no retry and no
\* further upstream call.
C5_OtherErrorsTerminal ==
    (Direct /\ rq.lastCall.status \in {400, 403, 500})
    => rq.pc = "done" /\ rq.calls = 1 /\ res.ended /\ Len(res.body) = 1

\* C6: once the only account of the pool has been rate-limited for the model
\* with a wait above 120000 ms, the request goes on to no selection and no
\* upstream call, and it ends as rate_limit_error.
C6_AllLimitedFailsFast ==
    ( /\ Direct /\ rq.poolSize = 1
      /\ rq.lastCall.status = 429 /\ rq.lastCall.resetMs > MAX_WAIT_BEFORE_ERROR_MS
      /\ rq.stream )
    => /\ rq.pc \notin {"creds", "call"}
       /\ rq.pc = "done" => rq.calls = 1

\* C7: a request on the direct path makes at most max(5, pool size) upstream
\* calls.
C7_CallsBounded ==
    Direct => rq.calls <= MAX_RETRIES \/ rq.calls <= rq.poolSize

\* A request that ended after as many calls as the pool has accounts, in a
\* pool of more than five.
C7_Witness ==
    /\ Direct /\ rq.pc = "done"
    /\ rq.poolSize = MaxAccounts /\ rq.poolSize > MAX_RETRIES
    /\ rq.calls = rq.poolSize

\* C8: every request on the direct path ends, whatever the pool, the empty
\* pool included.
C8_EveryRequestEnds == [](Direct => <>(rq.pc = "done"))

KiloBound == rq'.pc # "idle" /\ mapClaudeModel(rq'.model) = "kilo"

\* C9: in every step that receives or serves a request that routes to the
\* alternate backend, no account is selected, no credentials are resolved,
\* and the accounts and the rotator with its cursor stay as they were; an
\* upstream success is delivered whatever the size of the pool.
C9_KiloBypassesRotation ==
    [][ KiloBound
        => /\ UNCHANGED <<accountsFile, rotator>>
           /\ rq'.selects = 0 /\ rq'.credLookups = 0 /\ rq'.account = 0
           /\ (rq.pc = "kilo" /\ rq'.lastCall.status = 200 /\ ~rq'.lastCall.cut)
                => rq'.pc = "done" /\ res'.ended /\ res'.statusCode = 200 ]_vars

\* A request for a haiku model served by the alternate backend with no account
\* in the pool.
C9_Witness ==
    /\ mapClaudeModel(rq.model) = "kilo" /\ rq.pc = "done"
    /\ Len(accountsFile) = 0
    /\ rq.calls = 1 /\ rq.lastCall.status = 200
    /\ res.ended /\ res.statusCode = 200

\* The parse of an emitted sequence against
\*   message_start (content_block_start content_block_delta* content_block_stop)*
\*   message_delta message_stop
GrammarStep(st, ev) ==
    CASE st = "start" /\ ev.event = "message_start" -> "body"
      [] st = "body" /\ ev.event = "content_block_start" -> "block"
      [] st = "body" /\ ev.event = "message_delta" -> "finale"
      [] st = "block" /\ ev.event = "content_block_delta" -> "block"
      [] st = "block" /\ ev.event = "content_block_stop" -> "body"
      [] st = "finale" /\ ev.event = "message_stop" -> "end"
      [] OTHER -> "bad"

RECURSIVE GrammarState(_)
GrammarState(out) ==
    IF out = <<>> THEN "start"
    ELSE GrammarStep(GrammarState(SubSeq(out, 1, Len(out) - 1)), out[Len(out)])

\* C10: whatever the upstream events, what streamResponsesAPI has emitted
\* when it returns matches the event grammar.
C10_EmittedMatchesGrammar ==
    enc.phase = "ended" => GrammarState(emitted) = "end"

Starts(out, block) ==
    { i \in 1..Len(out) : out[i].event = "content_block_start" /\ out[i].block = block }

IndexStep(st, ev) ==
    IF ev.event = "content_block_start"
    THEN [last |-> ev.index, open |-> TRUE,
          ok |-> st.ok /\ ~st.open /\ ev.index > st.last /\ (st.last = -1 => ev.index = 0)]
    ELSE IF ev.event = "content_block_delta"
    THEN [st EXCEPT !.ok = st.ok /\ st.open /\ ev.index = st.last]
    ELSE IF ev.event = "content_block_stop"
    THEN [st EXCEPT !.open = FALSE, !.ok = st.ok /\ st.open /\ ev.index = st.last]
    ELSE st

RECURSIVE IndexState(_)
IndexState(out) ==
    IF out = <<>> THEN [last |-> -1, open |-> FALSE, ok |-> TRUE]
    ELSE IndexStep(IndexState(SubSeq(out, 1, Len(out) - 1)), out[Len(out)])

\* C12: in both re-encoders the indices of the content_block_start events
\* increase strictly from 0, and every delta and stop carries the index of
\* the block started last, which is still open.
C12_BlockIndices == IndexState(emitted).ok

EmptyTextBlock(withDelta) ==
    << MessageStart, Ev("content_block_start", 0, "text") >>
    \o (IF withDelta THEN <<Ev("content_block_delta", 0, "text")>> ELSE <<>>)
    \o << Ev("content_block_stop", 0, "none"),
          Ev("message_delta", 0, "end_turn"), Ev("message_stop", 0, "none") >>

\* C13: a stream that ends before anything was emitted yields message_start,
\* one empty text block at index 0, message_delta with end_turn and
\* message_stop, in either re-encoder.
C13_NoContentFallback ==
    [][ (enc.phase = "reading" /\ enc'.phase = "ended" /\ emitted = <<>>)
        => emitted' \in {EmptyTextBlock(TRUE), EmptyTextBlock(FALSE)} ]_vars

\* C14: in either re-encoder the stop_reason on message_delta is tool_use if
\* a tool_use block was started during the stream, and end_turn if none was.
C14_StopReason ==
    enc.phase = "ended"
    => \A i \in 1..Len(emitted) :
         emitted[i].event = "message_delta"
         => (emitted[i].block = "tool_use") = (Starts(emitted, "tool_use") # {})

\* C15: every tool_use id delivered to the client on the Responses-API path
\* starts with toolu_ and is toAnthropicToolId of the upstream call id, so the
\* streaming content_block_start carries the id that the non-streaming
\* response carries for the same function_call item.
C15_SameTooluId ==
    ret.fn = "streamResponsesAPI" =>
        /\ StartsWith(ret.id, "toolu_")
        /\ \E rnd \in RandomHex : ret.id = ConvertedToolUseId(arg, rnd)

\* C16: for every identifier x, toOpenAIToolId(toAnthropicToolId(
\* toOpenAIToolId(x))) is toOpenAIToolId(x).
C16_RoundTrip ==
    ret.fn = "round trip" => ret.again = ret.upstream

\* The round trip of an identifier with nested prefixes.
C16_Witness ==
    /\ ret.fn = "round trip"
    /\ arg.call_id = <<"toolu_", "fc_", "abc">>
    /\ ret.upstream = <<"fc_", "fc_", "abc">>
    /\ ret.again = ret.upstream

\* A thinking or redacted_thinking block without a signature of at least
\* MIN_SIGNATURE_LENGTH characters.
UnsignedThinking(block) ==
    /\ block.type \in {"thinking", "redacted_thinking"}
    /\ ~("signature" \in block.keys /\ block.signature >= MIN_SIGNATURE_LENGTH)

\* The number of blocks up to the last one that is not an unsigned thinking
\* block.
KeptLength(content) ==
    LET kept == {0} \cup {j \in 1..Len(content) : ~UnsignedThinking(content[j])}
    IN  CHOOSE k \in kept : \A j \in kept : j <= k

\* C17: removeTrailingThinkingBlocks(content) is content without its maximal
\* trailing run of thinking/redacted_thinking blocks that lack a valid
\* signature; the blocks before the run and their order are unchanged.
C17_TrailingRunRemoved ==
    ret.fn = "removeTrailingThinkingBlocks" =>
        ret.content = SubSeq(arg.content, 1, KeptLength(arg.content))

\* [text, unsigned, unsigned] has become [text].
C17_Witness ==
    /\ ret.fn = "removeTrailingThinkingBlocks"
    /\ Len(arg.content) = 3
    /\ arg.content[1].type = "text"
    /\ UnsignedThinking(arg.content[2])
    /\ arg.content[3].type = "thinking"
    /\ arg.content[3].signature = MIN_SIGNATURE_LENGTH - 1
    /\ ret.content = <<arg.content[1]>>

BlockRank(type) ==
    CASE type \in {"thinking", "redacted_thinking"} -> 1
      [] type = "text" -> 2
      [] type = "tool_use" -> 3

\* C18: in the output of processAssistantContent every thinking or
\* redacted_thinking block precedes every text block and every text block
\* precedes every tool_use block.
C18_ThinkingTextToolUse ==
    ret.fn = "processAssistantContent" =>
        \A i \in 1..Len(ret.content), j \in 1..Len(ret.content) :
            i < j => BlockRank(ret.content[i].type) <= BlockRank(ret.content[j].type)

\* A content array in the opposite order has been reordered.
C18_Witness ==
    /\ ret.fn = "processAssistantContent"
    /\ Len(arg.content) = 3
    /\ arg.content[1].type = "tool_use"
    /\ arg.content[2].type = "text"
    /\ arg.content[3].type = "thinking"
    /\ Len(ret.content) = 3
    /\ ret.content[1].type = "thinking"
    /\ ret.content[2].type = "text"
    /\ ret.content[3].type = "tool_use"

\* C19: the output of processAssistantContent, when non-empty, does not end
\* in a thinking or redacted_thinking block that lacks a valid signature.
C19_NoUnsignedTail ==
    (ret.fn = "processAssistantContent" /\ ret.content # <<>>) =>
        ~UnsignedThinking(ret.content[Len(ret.content)])

\* C20: every block in the output of processAssistantContent carries only
\* the minimal field set of its type (thoughtSignature being optional on a
\* tool_use block), arrays of length 1 included.
C20_MinimalFields ==
    ret.fn = "processAssistantContent" =>
        \A i \in 1..Len(ret.content) :
            ret.content[i].keys \subseteq
                (BlockFields(ret.content[i].type) \cup
                    (IF ret.content[i].type = "tool_use" THEN {"thoughtSignature"} ELSE {}))

\* The usability predicate of the specification, for an account at time t.
Usable(account, modelId, t) ==
    /\ ~account.isInvalid
    /\ account.enabled
    /\ account.cooldownUntil <= t
    /\ \/ ~account.modelRateLimits[modelId].isRateLimited
       \/ account.modelRateLimits[modelId].resetTime <= t

\* The indices (from 0) of the usable accounts of an array.
UsableIndices(accounts, modelId, t) ==
    { i \in 0..(Len(accounts) - 1) : Usable(accounts[i + 1], modelId, t) }

\* The first usable index found scanning forward from from + 1, wrapping.
NextUsable(accounts, from, modelId, t) ==
    LET steps == { k \in 1..Len(accounts) :
                     (from + k) % Len(accounts) \in UsableIndices(accounts, modelId, t) }
    IN  (from + (CHOOSE k \in steps : \A j \in steps : k <= j)) % Len(accounts)

\* C21: isAccountUsable(account, model) is true exactly when the account
\* exists, is not invalid, is not disabled, is not cooling down and has no
\* running rate limit for that model; a limit for another model or an expired
\* one does not count.
C21_UsableIff ==
    ret.fn = "isAccountUsable" =>
        ret.value = ( /\ ret.index < Len(arg.accounts)
                      /\ Usable(arg.accounts[ret.index + 1], ret.modelId, now) )

\* An account with an expired limit for the model and a running limit for
\* another model has been found usable.
C21_Witness ==
    /\ ret.fn = "isAccountUsable"
    /\ ret.modelId = "gpt-5.2"
    /\ ret.index < Len(arg.accounts)
    /\ arg.accounts[ret.index + 1].modelRateLimits["gpt-5.2"].isRateLimited
    /\ arg.accounts[ret.index + 1].modelRateLimits["gpt-5.2"].resetTime < now
    /\ arg.accounts[ret.index + 1].modelRateLimits["gpt-5.3-codex"].isRateLimited
    /\ arg.accounts[ret.index + 1].modelRateLimits["gpt-5.3-codex"].resetTime > now
    /\ ret.value

StickySelection ==
    /\ ret.fn = "selectAccount"
    /\ rotator.strategy.name = "sticky"
    /\ ret.currentIndex < Len(ret.accounts)

\* C22: the sticky strategy returns the current index while its account is
\* usable; once that account is rate-limited and another account is usable,
\* it returns the first usable index scanning forward from the current index
\* plus one, with wrap-around.
C22_StickyStaysPut ==
    StickySelection =>
        LET usable == UsableIndices(ret.accounts, ret.modelId, now)
        IN  /\ ret.currentIndex \in usable =>
                ret.found /\ ret.index = ret.currentIndex
            /\ (ret.currentIndex \notin usable /\ usable # {}) =>
                /\ ret.found
                /\ ret.index # ret.currentIndex
                /\ ret.index = NextUsable(ret.accounts, ret.currentIndex, ret.modelId, now)

\* The second selection, after the account of the first one was rate-limited
\* for 10 s, has wrapped around from index 2 to index 0.
C22_Witness ==
    /\ StickySelection
    /\ ret.n = 2
    /\ Len(ret.accounts) = 3
    /\ ret.currentIndex = 2
    /\ ret.accounts[3].modelRateLimits[ret.modelId].isRateLimited
    /\ ret.accounts[3].modelRateLimits[ret.modelId].actualResetMs = 10000
    /\ ret.found
    /\ ret.index = 0

\* C23: when no account is usable, the sticky strategy returns no account,
\* with waitMs equal to the remaining wait of the current account if that
\* account is valid, enabled and rate-limited for at most 120000 ms more, and
\* with waitMs 0 otherwise.
C23_WaitForCurrent ==
    ( /\ ret.fn = "selectAccount"
      /\ rotator.strategy.name = "sticky"
      /\ UsableIndices(ret.accounts, ret.modelId, now) = {} )
    =>
        /\ ~ret.found
        /\ IF ret.accounts = <<>> THEN ret.waitMs = 0
           ELSE LET current == ret.accounts[Min(ret.currentIndex, Len(ret.accounts) - 1) + 1]
                    limit == current.modelRateLimits[ret.modelId]
                IN  IF /\ ~current.isInvalid
                       /\ current.enabled
                       /\ limit.isRateLimited
                       /\ limit.resetTime > now
                       /\ limit.resetTime - now <= 120000
                    THEN ret.waitMs = limit.resetTime - now /\ ret.waitMs > 0
                    ELSE ret.waitMs = 0

\* No account was usable and the wait for the current one is the largest
\* the strategy accepts.
C23_Witness ==
    /\ ret.fn = "selectAccount"
    /\ rotator.strategy.name = "sticky"
    /\ Len(ret.accounts) = 3
    /\ ~ret.found
    /\ ret.waitMs = 120000

\* C24: with the round-robin strategy, two consecutive selections that both
\* find at least two usable accounts return different indices, the second
\* being the first usable index after the first, with wrap-around.
C24_RoundRobinAdvances ==
    [][ ( /\ rotator.strategy.name = "round-robin"
          /\ ret.fn = "selectAccount"
          /\ ret'.fn = "selectAccount"
          /\ ret'.n = ret.n + 1
          /\ Cardinality(UsableIndices(ret.accounts, ret.modelId, now)) >= 2
          /\ Cardinality(UsableIndices(ret'.accounts, ret'.modelId, now)) >= 2 )
        =>
        ( /\ ret.found
          /\ ret'.found
          /\ ret'.index # ret.index
          /\ ret'.index = NextUsable(ret'.accounts, ret.index, ret'.modelId, now) )
      ]_vars

\* A second round-robin selection among at least two usable accounts has
\* wrapped around from the last index to the first.
C24_Witness ==
    /\ rotator.strategy.name = "round-robin"
    /\ ret.fn = "selectAccount"
    /\ ret.n = 2
    /\ Len(ret.accounts) = 3
    /\ Cardinality(UsableIndices(ret.accounts, ret.modelId, now)) >= 2
    /\ ret.cursor = 2
    /\ ret.found
    /\ ret.index = 0

\* The remaining cooldown and rate-limit times of the non-invalid accounts.
RemainingTimes(accounts, modelId, t) ==
    { accounts[i].cooldownUntil - t :
        i \in { k \in 1..Len(accounts) :
                  ~accounts[k].isInvalid /\ accounts[k].cooldownUntil > t } }
    \cup
    { accounts[i].modelRateLimits[modelId].resetTime - t :
        i \in { k \in 1..Len(accounts) :
                  /\ ~accounts[k].isInvalid
                  /\ accounts[k].modelRateLimits[modelId].isRateLimited
                  /\ accounts[k].modelRateLimits[modelId].resetTime > t } }

\* C25: getMinWaitTimeMs returns 0 if some account is usable for the model,
\* and otherwise the least remaining cooldown or rate-limit time of the
\* non-invalid accounts, or 0 when there is none.
C25_MinWait ==
    ret.fn = "getMinWaitTimeMs" =>
        LET times == RemainingTimes(arg.accounts, ret.modelId, now)
        IN  ret.value =
              IF UsableIndices(arg.accounts, ret.modelId, now) # {} \/ times = {} THEN 0
              ELSE CHOOSE w \in times : \A v \in times : w <= v

\* C26: every per-model entry that a step writes with isRateLimited = true
\* has resetTime strictly later than the time of the write and actualResetMs
\* equal to the reset that was passed in.
C26_ResetInFuture ==
    [][ \A i \in 1..Len(arg.accounts), m \in ModelIds :
          LET old == arg.accounts[i].modelRateLimits[m]
              new == arg'.accounts[i].modelRateLimits[m]
          IN  (new # old /\ new.isRateLimited) =>
                /\ new.resetTime > now
                /\ new.actualResetMs = new.resetTime - now
                /\ \E response \in TrackerAnswers :
                      new.actualResetMs = parseResetTime(response, now)
      ]_vars

\* C27: clearExpiredLimits clears exactly the entries, of every account and
\* model, that are flagged and whose resetTime has passed, returns their
\* number, and changes no other entry and no isInvalid or cooldown field.
C27_ClearsExactlyExpired ==
    [][ ret'.fn = "clearExpiredLimits" =>
          LET slots == (1..Len(arg.accounts)) \X ModelIds
              changed == { s \in slots :
                             arg'.accounts[s[1]].modelRateLimits[s[2]]
                                # arg.accounts[s[1]].modelRateLimits[s[2]] }
              expired == { s \in slots :
                             /\ arg.accounts[s[1]].modelRateLimits[s[2]].isRateLimited
                             /\ arg.accounts[s[1]].modelRateLimits[s[2]].resetTime <= now }
          IN  /\ Len(arg'.accounts) = Len(arg.accounts)
              /\ changed = expired
              /\ \A s \in expired :
                    arg'.accounts[s[1]].modelRateLimits[s[2]] =
                        [isRateLimited |-> FALSE, resetTime |-> 0, actualResetMs |-> 0]
              /\ ret'.value = Cardinality(expired)
              /\ \A i \in 1..Len(arg.accounts) :
                    /\ arg'.accounts[i].isInvalid = arg.accounts[i].isInvalid
                    /\ arg'.accounts[i].enabled = arg.accounts[i].enabled
                    /\ arg'.accounts[i].cooldownUntil = arg.accounts[i].cooldownUntil
                    /\ arg'.accounts[i].email = arg.accounts[i].email
      ]_vars

\* A sweep has cleared the expired entries of two accounts and left the
\* running entries of the other model and of the third account as they were.
C27_Witness ==
    /\ ret.fn = "clearExpiredLimits"
    /\ ret.value = 2
    /\ Len(arg.accounts) = 3
    /\ ~arg.accounts[1].modelRateLimits["gpt-5.2"].isRateLimited
    /\ arg.accounts[1].modelRateLimits["gpt-5.3-codex"].isRateLimited
    /\ ~arg.accounts[2].modelRateLimits["gpt-5.2"].isRateLimited
    /\ arg.accounts[3].modelRateLimits["gpt-5.2"].isRateLimited
    /\ arg.accounts[3].modelRateLimits["gpt-5.2"].resetTime > now

\* What a lookup made at time t under the key returns, given the last caching
\* under the key: its value if it is at most the TTL old, and null otherwise.
Fresh(cached, t) ==
    IF cached # <<>> /\ t - cached[1].timestamp <= 7200000 THEN cached[1].value ELSE "null"

\* The last lookup returned the fresh value, and left no entry if it
\* returned null.
LookupCorrect ==
    /\ ret.fn = "getCachedSignature" =>
         /\ ret.value = Fresh(arg.cached.signatureCache[ret.key], ret.at)
         /\ ret.value = "null" => arg.signatureCache[ret.key] = <<>>
    /\ ret.fn = "getCachedSignatureFamily" =>
         /\ ret.value = Fresh(arg.cached.thinkingSignatureCache[ret.key], ret.at)
         /\ ret.value = "null" => arg.thinkingSignatureCache[ret.key] = <<>>

\* C28: a lookup in either signature cache returns the value most recently
\* cached under the key if that caching is at most 2 hours old and null
\* otherwise, a lookup that finds an expired entry removes it, and a call on
\* one cache leaves the other cache as it was.
C28_CacheTtl ==
    [][ /\ LookupCorrect'
        /\ ret'.fn \in {"cacheSignature", "getCachedSignature"} =>
             arg'.thinkingSignatureCache = arg.thinkingSignatureCache
        /\ ret'.fn \in {"cacheThinkingSignature", "getCachedSignatureFamily"} =>
             arg'.signatureCache = arg.signatureCache
      ]_vars

\* A lookup one millisecond past the TTL has returned null and removed the
\* entry, while the other cache still holds the same signature as a key.
C28_Witness ==
    /\ ret.fn = "getCachedSignature"
    /\ arg.cached.signatureCache[ret.key] # <<>>
    /\ ret.at - arg.cached.signatureCache[ret.key][1].timestamp = 7200001
    /\ ret.value = "null"
    /\ arg.signatureCache[ret.key] = <<>>
    /\ arg.thinkingSignatureCache[arg.cached.signatureCache[ret.key][1].value] # <<>>

(***************************************************************************)
(* The errors a request ends with.                                         *)
(***************************************************************************)
Count(body, what) == Cardinality({i \in DOMAIN body : body[i] = what})

Last(body) == body[Len(body)]

JsonErrors ==
    {"json: authentication_error", "json: rate_limit_error", "json: api_error"}

\* The request is over, and it is not over with the message or with the whole
\* stream.
EndedWithError ==
    \/ rq.pc = "rejected"
    \/ /\ rq.pc = "done"
       /\ res.body = <<>> \/ Last(res.body) \notin {"json: message", "data: [DONE]"}

\* The JSON error envelope with its status, and nothing else in the response.
JsonEnvelope ==
    /\ res.ended
    /\ Len(res.body) = 1
    /\ \/ res.statusCode = 401 /\ res.body[1] = "json: authentication_error"
       \/ res.statusCode = 429 /\ res.body[1] = "json: rate_limit_error"
       \/ res.statusCode = 500 /\ res.body[1] = "json: api_error"

\* One error frame, the last thing of a started stream, then the end.
FinalErrorFrame ==
    /\ res.headersSent
    /\ res.statusCode = 200
    /\ res.ended
    /\ res.body # <<>>
    /\ Last(res.body) = "event: error"
    /\ Count(res.body, "event: error") = 1
    /\ \A i \in DOMAIN res.body : res.body[i] \notin JsonErrors

\* C29: a request that ends with an error has delivered it either as the JSON
\* error envelope with status 401, 429 or 500 and nothing else, or as exactly
\* one final event: error frame of a started stream followed by the end of
\* the response.
C29_ErrorDelivered ==
    EndedWithError => JsonEnvelope \/ FinalErrorFrame

\* C30: once the client has closed the connection of a streaming request, no
\* further re-encoder event is written for it and nothing more is read from
\* its upstream body, and the accounts, the rotator and the response of the
\* other requests are as they were.
C30_AbortStopsStream ==
    ret.fn = "close" =>
        /\ Len(emitted) = ret.written
        /\ enc.consumed = ret.consumed
        /\ accountsFile = <<>> /\ rotator.strategy = createStrategy("sticky")

(***************************************************************************)
(* The schema sanitizer.                                                   *)
(***************************************************************************)
RECURSIVE CleanSchema(_)
\* No const key and no unsupported keyword in an output schema, nor in the
\* schemas under its properties and its items.
CleanSchema(out) ==
    IF ~IsObj(out) THEN TRUE
    ELSE /\ DOMAIN out.obj \cap (UnsupportedKeys \cup {"const", "additionalProperties"}) = {}
         /\ "properties" \in DOMAIN out.obj =>
              \A name \in DOMAIN out.obj["properties"].obj :
                 CleanSchema(out.obj["properties"].obj[name])
         /\ "items" \in DOMAIN out.obj =>
              IF IsArr(out.obj["items"])
              THEN \A n \in DOMAIN out.obj["items"].arr : CleanSchema(out.obj["items"].arr[n])
              ELSE CleanSchema(out.obj["items"])

\* C31: sanitizeSchema maps {type: ["string", "null"]} to exactly
\* {type: "string"} and {const: "x"} to exactly {enum: ["x"]}, and no output
\* has a const key or an unsupported keyword at any depth reached through
\* properties and items.
C31_SanitizedSchema ==
    ret.fn = "sanitizeSchema" =>
        /\ arg.schema = Obj(<<Entry("type", Arr(<<Str("string"), Str("null")>>))>>) =>
             ret.schema = Obj([type |-> Str("string")])
        /\ arg.schema = Obj(<<Entry("const", Str("x"))>>) =>
             ret.schema = Obj([enum |-> Arr(<<Str("x")>>)])
        /\ CleanSchema(ret.schema)

(***************************************************************************)
(* The rotator's writes and its next decision.                             *)
(***************************************************************************)
\* selectAccount of the rotator returns the account of that email.
Selects(rot, data, email, modelId, t) ==
    LET sel == RotatorSelectAccount(rot, data, modelId, t)
    IN  sel.found /\ listAccounts(data)[sel.index + 1].email = email

\* C32: for the rotator of the route and every account of the pool, after
\* markRateLimited(email, ms, model) or markInvalid(email) the next
\* selectAccount for the model does not return that account, and when it is
\* the only account isAllRateLimited is true and getMinWaitTimeMs is the time
\* left of the limit.
C32_MarkSeen ==
    rotator.currentStrategy # "null" =>
        \A i \in 1..Len(accountsFile), modelId \in ModelIds,
           ms \in {SHORT_RATE_LIMIT_THRESHOLD_MS + 1, MAX_WAIT_BEFORE_ERROR_MS} :
            LET email == accountsFile[i].email
                limited == RotatorMarkRateLimited(accountsFile, email, ms, modelId, now)
                invalid == RotatorMarkInvalid(accountsFile, email)
            IN  /\ ~Selects(rotator, limited, email, modelId, now)
                /\ ~Selects(rotator, invalid, email, modelId, now)
                /\ Len(accountsFile) = 1 =>
                     /\ RotatorIsAllRateLimited(limited, modelId, now)
                     /\ RotatorGetMinWaitTimeMs(limited, modelId, now) = ms

Positions(stream, name) == { i \in DOMAIN stream : stream[i].event = name }

\* C34: a stream a re-encoder has completed holds a content_block_start and,
\* after it, a content_block_stop, both between message_start and
\* message_delta.
C34_SomeContentBlock ==
    enc.phase = "ended"
    => \E i \in Positions(emitted, "content_block_start"),
          j \in Positions(emitted, "content_block_stop") :
          /\ i < j
          /\ \E s \in Positions(emitted, "message_start") : s < i
          /\ \E d \in Positions(emitted, "message_delta") : j < d

C36_KiloErrorTerminal ==
    (rq.isKilo /\ rq.calls > 0 /\ rq.lastCall.status # 200)
    => /\ res.ended
       /\ Count(res.body, "event: error")
            + Cardinality({i \in DOMAIN res.body : res.body[i] \in JsonErrors}) = 1

\* C37: under either strategy a selection returns an account exactly when
\* some account of the array is usable for the model, and the account it
\* returns is usable for the model at that time.
C37_SelectsIffUsable ==
    ret.fn = "selectAccount" =>
        /\ ret.found <=> UsableIndices(ret.accounts, ret.modelId, now) # {}
        /\ ret.found => ret.index \in UsableIndices(ret.accounts, ret.modelId, now)

\* A sticky selection has left an unusable current account for the only
\* usable account of three.
C37_Witness ==
    /\ ret.fn = "selectAccount"
    /\ rotator.strategy.name = "sticky"
    /\ Len(ret.accounts) = 3
    /\ ret.currentIndex = 1
    /\ UsableIndices(ret.accounts, ret.modelId, now) = {0}
    /\ ret.found /\ ret.index = 0

\* C38: the function_call item built from a tool_use block and the
\* function_call_output item built from a tool_result block carry the same
\* call_id exactly when the id of the one and the tool_use_id of the other
\* are equal, for non-empty identifiers.
C38_SameCallIdIffSameId ==
    (ret.fn = "convertAnthropicToResponsesAPI" /\ arg.id # <<>> /\ arg.tool_use_id # <<>>)
    => (ret.function_call.call_id = ret.function_call_output.call_id
          <=> arg.id = arg.tool_use_id)

\* C39: the step that completes a refresh changes nothing of the accounts
\* file but the token fields of the refreshed account: the accounts are those
\* the file held just before, in the same order, the other accounts and the
\* active account are as they were.
C39_RefreshKeepsUpdates ==
    [][ (ret.fn = "refreshAccountToken" /\ ret.pc = "await" /\ ret'.pc # "await")
        => /\ arg'.activeAccount = arg.activeAccount
           /\ Len(accountsFile') = Len(accountsFile)
           /\ \A i \in 1..Len(accountsFile) :
                /\ accountsFile'[i].email = accountsFile[i].email
                /\ accountsFile[i].email # ret.email => accountsFile'[i] = accountsFile[i]
      ]_vars

\* A valid, enabled account that is not cooling down and whose rate limit for
\* the model resets within 120 s.
SoonUsable(account, modelId, t) ==
    /\ ~account.isInvalid
    /\ account.enabled
    /\ account.cooldownUntil <= t
    /\ account.modelRateLimits[modelId].isRateLimited
    /\ account.modelRateLimits[modelId].resetTime > t
    /\ account.modelRateLimits[modelId].resetTime - t <= MAX_WAIT_BEFORE_ERROR_MS

====
